---- MODULE Spec2Model ----
(***************************************************************************)
(* The impersonation proxy reconciliation controller of                    *)
(* internal/controller/impersonatorconfig/impersonator_config.go.          *)
(*                                                                         *)
(* One Sync action is one whole sync pass (Sync -> doSync -> every ensure* *)
(* step).  The controller reads services and secrets through informer       *)
(* caches (svcCache, secCache) and writes through the API client to the     *)
(* store (svcStore, secStore); the caches are earlier snapshots of the      *)
(* store and catch up in separate steps.                                   *)
(*                                                                         *)
(* Optional values are sequences of length at most one: <<>> is nil or     *)
(* not-found, <<x>> is x.  Strings that the code parses or formats         *)
(* (endpoints, the bookkeeping annotation) are sequences of tokens.        *)
(***************************************************************************)
EXTENDS Integers, Sequences, FiniteSets, TLC

VARIABLES
    credIssuerFound,        \* whether c.credIssuerInformer lists the CredentialIssuer
    spec,                   \* the CredentialIssuer's spec.impersonationProxy, as the informer serves it
    hasControlPlaneNodes,   \* c.hasControlPlaneNodes: "nil", "true" or "false"
    serverStopCh,           \* c.serverStopCh: "nil" or "open"
    errorCh,                \* c.errorCh: "nil", "empty", "nilErr", "err" (one buffered value) or "closed"
    liveTasks,              \* background tasks whose startImpersonatorFunc has not returned yet
    tlsServingCert,         \* c.tlsServingCertDynamicCertProvider content
    signingCert,            \* c.impersonationSigningCertProvider content: "unset" or "set"
    svcStore,               \* services held by the API server
    svcCache,               \* services as c.servicesInformer lists them
    svcDirty,               \* services whose stored resourceVersion is newer than the cached one
    secStore,               \* secrets held by the API server
    secCache,               \* secrets as c.secretsInformer lists them
    secDirty,               \* secrets whose stored resourceVersion is newer than the cached one
    caCount,                \* how many certificate authorities have been generated and stored
    status,                 \* the strategy last handed to issuerconfig.Update
    last,                   \* what the most recent step was and, for a sync pass, what it did
    envSteps,               \* how many changes actors other than this controller have made
    standby                 \* the other replica of the controller, if there is one

vars == <<credIssuerFound, spec, hasControlPlaneNodes, serverStopCh, errorCh, liveTasks,
          tlsServingCert, signingCert,
          svcStore, svcCache, svcDirty, secStore, secCache, secDirty, caCount, status,
          last, envSteps, standby>>

-----------------------------------------------------------------------------
(* Bounds of the model                                                     *)

\* changes made by actors other than this controller (spec edits, address
\* assignment, third-party writes and deletes) in one behaviour
MaxEnv == 1

\* edits of a service's annotations, by the spec's author or by somebody else,
\* in one behaviour of the annotation specification
MaxEdits == 2

\* certificate authorities generated in one behaviour
MaxCA == 3

-----------------------------------------------------------------------------
(* Values                                                                  *)

LB == "loadBalancer"
CIP == "clusterIP"
SvcNames == {LB, CIP}

TLS == "tls"
CA == "ca"
SIGNER == "signer"
SecNames == {TLS, CA, SIGNER}

annotationKeysKey == "credentialissuer.pinniped.dev/annotation-keys"

\* The strings that net.ParseIP accepts, with the address each denotes.  Two
\* spellings of one address denote the same address.
IPTable ==
    ("10.0.0.5" :> 5) @@ ("10.0.0.6" :> 6) @@ ("198.51.100.9" :> 9) @@ ("::ffff:10.0.0.5" :> 5)

ParseIP(s) == IF s \in DOMAIN IPTable THEN <<IPTable[s]>> ELSE <<>>

HostNames == {"old.example.com", "new.example.com"}

\* Annotation keys in ascending string order; the bookkeeping key sorts after them.
KeyOrder == <<"a", "b", "c", annotationKeysKey>>

Rank(k) == CHOOSE i \in 1..Len(KeyOrder) : KeyOrder[i] = k

RECURSIVE SortStrings(_)
SortStrings(S) ==
    IF S = {} THEN <<>>
    ELSE LET m == CHOOSE x \in S : \A y \in S : Rank(x) <= Rank(y)
         IN  <<m>> \o SortStrings(S \ {m})

Range(s) == {s[i] : i \in 1..Len(s)}

\* json.Marshal of a slice of strings, and json.Unmarshal into a slice of
\* strings (which leaves the slice empty when the text is no JSON array).
jsonMarshal(keys) == <<"[">> \o keys \o <<"]">>

jsonUnmarshal(text) ==
    IF Len(text) >= 2 /\ text[1] = "[" /\ text[Len(text)] = "]"
    THEN SubSeq(text, 2, Len(text) - 1)
    ELSE <<>>

EmptyAnn == [k \in {} |-> <<>>]

\* labels and selector the controller was constructed with
ControllerLabels == "controller-labels"
AppSelector == "app-selector"

-----------------------------------------------------------------------------
(* Desired-state resolver                                                  *)

Modes == {"disabled", "auto", "enabled"}
ServiceTypes == {"None", "LoadBalancer", "ClusterIP"}

\* endpointaddr.Parse(endpoint, defaultPort): host[:port] as tokens
ValidPorts == {"443", "8444"}

ValidHost(h) == h \in DOMAIN IPTable \/ h \in HostNames

endpointaddrParse(endpoint, defaultPort) ==
    IF Len(endpoint) = 1 /\ ValidHost(endpoint[1])
    THEN [ok |-> TRUE, host |-> endpoint[1], port |-> defaultPort]
    ELSE IF Len(endpoint) = 3 /\ ValidHost(endpoint[1]) /\ endpoint[2] = ":"
            /\ endpoint[3] \in ValidPorts
    THEN [ok |-> TRUE, host |-> endpoint[1], port |-> endpoint[3]]
    ELSE [ok |-> FALSE, host |-> "", port |-> ""]

\* addr.Endpoint(): host:port
addrEndpoint(addr) == <<addr.host, ":", addr.port>>

\* strings.TrimSuffix
TrimSuffix(s, suffix) ==
    IF Len(s) >= Len(suffix) /\ SubSeq(s, Len(s) - Len(suffix) + 1, Len(s)) = suffix
    THEN SubSeq(s, 1, Len(s) - Len(suffix))
    ELSE s

\* fault: the fields of a disabled spec are validated as well
validateCredentialIssuerSpec_ChecksDisabled(s) ==
    IF s.mode \notin Modes THEN "invalid-mode"
    ELSE IF s.svcType \notin ServiceTypes THEN "invalid-service-type"
    ELSE IF s.lbIP # "" /\ ParseIP(s.lbIP) = <<>> THEN "invalid-loadBalancerIP"
    ELSE IF s.endpoint = <<>> /\ s.svcType = "None" THEN "externalEndpoint-not-set"
    ELSE IF s.endpoint # <<>> /\ ~endpointaddrParse(s.endpoint, "443").ok
    THEN "invalid-externalEndpoint"
    ELSE ""

\* validateCredentialIssuerSpec: "" when the spec is valid, else the error
validateCredentialIssuerSpec(s) ==
    IF s.mode \notin Modes THEN "invalid-mode"
    ELSE IF s.mode = "disabled" THEN ""
    ELSE IF s.svcType \notin ServiceTypes THEN "invalid-service-type"
    ELSE IF s.lbIP # "" /\ ParseIP(s.lbIP) = <<>> THEN "invalid-loadBalancerIP"
    ELSE IF s.endpoint = <<>> /\ s.svcType = "None" THEN "externalEndpoint-not-set"
    ELSE IF s.endpoint # <<>> /\ ~endpointaddrParse(s.endpoint, "443").ok
    THEN "invalid-externalEndpoint"
    ELSE ""

\* loadImpersonationProxyConfiguration: the copy of the spec with the service
\* type defaulted, and the validation error
loadImpersonationProxyConfiguration(s) ==
    LET defaulted == IF s.svcType = "" THEN [s EXCEPT !.svcType = "LoadBalancer"] ELSE s
    IN  [config |-> defaulted, err |-> validateCredentialIssuerSpec(defaulted)]

enabledByAutoMode(config, hcp) == config.mode = "auto" /\ hcp = "false"

disabledByAutoMode(config, hcp) == config.mode = "auto" /\ hcp = "true"

disabledExplicitly(config) == config.mode = "disabled"

shouldHaveImpersonator(config, hcp) ==
    enabledByAutoMode(config, hcp) \/ config.mode = "enabled"

shouldHaveLoadBalancer(config, hcp) ==
    shouldHaveImpersonator(config, hcp) /\ config.svcType = "LoadBalancer"

\* fault: the service type alone decides
shouldHaveClusterIPService_TypeOnly(config, hcp) == config.svcType = "ClusterIP"

shouldHaveClusterIPService(config, hcp) ==
    shouldHaveImpersonator(config, hcp) /\ config.svcType = "ClusterIP"

shouldHaveTLSSecret(config, hcp) == shouldHaveImpersonator(config, hcp)

-----------------------------------------------------------------------------
(* The API client: every call is logged in c.calls with its outcome.       *)
(* c is the state a sync pass works on; c.err is the error that ended it.  *)

Call(verb, name, res) == [verb |-> verb, name |-> name, res |-> res]

svcCreate(c, name, obj) ==
    IF c.svcStore[name] # <<>>
    THEN [c EXCEPT !.calls = @ \o <<Call("create", name, "AlreadyExists")>>,
                   !.err = "AlreadyExists"]
    ELSE [c EXCEPT !.calls = @ \o <<Call("create", name, "ok")>>,
                   !.svcStore[name] = <<obj>>,
                   !.svcDirty = @ \cup {name}]

svcUpdate(c, name, obj) ==
    IF c.svcStore[name] = <<>>
    THEN [c EXCEPT !.calls = @ \o <<Call("update", name, "NotFound")>>, !.err = "NotFound"]
    ELSE IF name \in c.svcDirty
    THEN [c EXCEPT !.calls = @ \o <<Call("update", name, "Conflict")>>, !.err = "Conflict"]
    ELSE [c EXCEPT !.calls = @ \o <<Call("update", name, "ok")>>,
                   !.svcStore[name] = <<obj>>,
                   !.svcDirty = @ \cup {name}]

\* fault: a delete that finds nothing fails the pass
svcDelete_NotFoundFails(c, name) ==
    IF c.svcStore[name] = <<>>
    THEN [c EXCEPT !.calls = @ \o <<Call("delete", name, "NotFound")>>, !.err = "NotFound"]
    ELSE [c EXCEPT !.calls = @ \o <<Call("delete", name, "ok")>>,
                   !.svcStore[name] = <<>>,
                   !.svcDirty = @ \cup {name}]

\* Delete followed by utilerrors.FilterOut(err, k8serrors.IsNotFound)
svcDelete(c, name) ==
    IF c.svcStore[name] = <<>>
    THEN [c EXCEPT !.calls = @ \o <<Call("delete", name, "NotFound")>>]
    ELSE [c EXCEPT !.calls = @ \o <<Call("delete", name, "ok")>>,
                   !.svcStore[name] = <<>>,
                   !.svcDirty = @ \cup {name}]

\* fault: a create of a secret that exists replaces it
secCreate_Replaces(c, name, obj) ==
    [c EXCEPT !.calls = @ \o <<Call("create", name, "ok")>>,
              !.secStore[name] = <<obj>>,
              !.secDirty = @ \cup {name}]

secCreate(c, name, obj) ==
    IF c.secStore[name] # <<>>
    THEN [c EXCEPT !.calls = @ \o <<Call("create", name, "AlreadyExists")>>,
                   !.err = "AlreadyExists"]
    ELSE [c EXCEPT !.calls = @ \o <<Call("create", name, "ok")>>,
                   !.secStore[name] = <<obj>>,
                   !.secDirty = @ \cup {name}]

-----------------------------------------------------------------------------
(* Proxy process lifecycle                                                 *)
(*                                                                         *)
(* The background task lives while errorCh is "empty": it has been given   *)
(* the channel and has not sent on it yet; liveTasks counts the tasks      *)
(* launched whose start function has not returned.  A task that is asked   *)
(* to stop returns and sends before the controller reads its result.  nd   *)
(* holds the outcomes the pass does not decide: what the proxy factory     *)
(* returns (nd.factory) and the error the start function returns once its  *)
(* stop channel is closed (nd.stopErr).                                    *)

\* the capacity of c.errorCh: make(chan error, 1)
ErrorChCapacity == 1

\* fault: the re-sync is asked for before the result is sent
goroutineBody_EnqueuesFirst ==
    <<[deferred |-> TRUE, call |-> "HandleCrash"],
      [deferred |-> FALSE, call |-> "AddRateLimited"],
      [deferred |-> FALSE, call |-> "send"]>>

\* the statements of the goroutine that runs the proxy, in source order
goroutineBody ==
    <<[deferred |-> TRUE, call |-> "HandleCrash"],
      [deferred |-> TRUE, call |-> "AddRateLimited"],
      [deferred |-> FALSE, call |-> "send"]>>

Reverse(s) == [i \in 1..Len(s) |-> s[Len(s) + 1 - i]]

\* the calls of a function body in the order Go makes them: the statements in
\* source order, then the deferred calls, the last deferred first
ExecutionOrder(body) ==
    LET callsOf(stmts) == [i \in 1..Len(stmts) |-> stmts[i].call]
    IN  callsOf(SelectSeq(body, LAMBDA stmt : ~stmt.deferred))
        \o Reverse(callsOf(SelectSeq(body, LAMBDA stmt : stmt.deferred)))

\* what the proxy task and the controller do to the task's channels in one
\* step: calls of the proxy factory, tasks launched, start functions that
\* returned, values sent on errorCh, AddRateLimited calls, whether each of
\* those found the task's result already sent, close calls on either channel,
\* what went wrong in a send, the goroutine's calls in the order made, and the
\* errors that ensureImpersonatorIsStarted aggregates
NoProc ==
    [factoryCalls |-> 0, launched |-> 0, exits |-> 0, sends |-> 0, enqueues |-> 0,
     enqueuedAfterSend |-> TRUE, errorChCloses |-> 0, stopChCloses |-> 0, fault |-> "",
     trace |-> <<>>, aggregate |-> <<>>]

\* fault: the send waits for a receiver, as on a channel without a buffer
send_Unbuffered(g, result, receiving) ==
    IF g.errorCh = "empty" /\ receiving
    THEN [g EXCEPT !.errorCh = result, !.proc.sends = @ + 1, !.proc.trace = @ \o <<"send">>]
    ELSE [g EXCEPT !.proc.fault = IF g.errorCh = "closed" THEN "send on closed channel"
                                  ELSE "send blocks"]

\* c.errorCh <- result, while the controller is receiving from it or not
send(g, result, receiving) ==
    IF g.errorCh = "empty" /\ (ErrorChCapacity > 0 \/ receiving)
    THEN [g EXCEPT !.errorCh = result, !.proc.sends = @ + 1, !.proc.trace = @ \o <<"send">>]
    ELSE [g EXCEPT !.proc.fault = IF g.errorCh = "closed" THEN "send on closed channel"
                                  ELSE "send blocks"]

goroutineCall(g, call, result, receiving) ==
    IF g.proc.fault # "" THEN g
    ELSE IF call = "send" THEN send(g, result, receiving)
    ELSE IF call = "AddRateLimited"
    THEN [g EXCEPT !.proc.enqueues = @ + 1,
                   !.proc.enqueuedAfterSend = @ /\ g.errorCh = result,
                   !.proc.trace = @ \o <<call>>]
    ELSE [g EXCEPT !.proc.trace = @ \o <<call>>]

RECURSIVE runGoroutine(_, _, _, _)
runGoroutine(g, calls, result, receiving) ==
    IF calls = <<>> THEN g
    ELSE runGoroutine(goroutineCall(g, Head(calls), result, receiving), Tail(calls),
                      result, receiving)

\* startImpersonatorFunc returns result and the goroutine runs to its end;
\* g holds errorCh and the proc record
taskReturns(g, result, receiving) ==
    runGoroutine([g EXCEPT !.proc.exits = @ + 1], ExecutionOrder(goroutineBody),
                 result, receiving)

\* fault: a stop that read an error returns it with the handles still set
ensureImpersonatorIsStopped_KeepsHandlesOnError(c, shouldCloseErrChan, nd) ==
    IF c.serverStopCh = "nil" THEN c
    ELSE LET g == IF c.errorCh = "empty" /\ c.liveTasks > 0
                  THEN taskReturns([errorCh |-> c.errorCh, proc |-> c.proc],
                                   IF nd.stopErr = "err" THEN "err" ELSE "nilErr", TRUE)
                  ELSE [errorCh |-> c.errorCh, proc |-> c.proc]
             taken == [c EXCEPT !.liveTasks = IF c.errorCh = "empty" THEN @ - 1 ELSE @,
                                !.proc = [g.proc EXCEPT !.stopChCloses = @ + 1]]
         IN  IF g.errorCh = "err"
             THEN [taken EXCEPT !.errorCh = "closed", !.err = "stop"]
             ELSE [taken EXCEPT !.serverStopCh = "nil", !.errorCh = "nil"]

ensureImpersonatorIsStopped(c, shouldCloseErrChan, nd) ==
    IF c.serverStopCh = "nil" THEN c
    ELSE LET \* close(c.serverStopCh): a task that still runs returns
             g == IF c.errorCh = "empty" /\ c.liveTasks > 0
                  THEN taskReturns([errorCh |-> c.errorCh, proc |-> c.proc],
                                   IF nd.stopErr = "err" THEN "err" ELSE "nilErr", TRUE)
                  ELSE [errorCh |-> c.errorCh, proc |-> c.proc]
             \* stopErr := <-c.errorCh
             stopErr == IF g.errorCh = "err" THEN "err" ELSE "nil"
         IN  IF g.errorCh \in {"nil", "empty"}
             THEN \* nothing to receive and no task left to send: the receive never returns
                  [c EXCEPT !.proc = [g.proc EXCEPT !.stopChCloses = @ + 1,
                                                    !.fault = "receive blocks"],
                            !.err = "blocked"]
             ELSE [c EXCEPT !.serverStopCh = "nil",
                            !.errorCh = "nil",
                            !.liveTasks = IF c.errorCh = "empty" THEN @ - 1 ELSE @,
                            !.proc = [g.proc EXCEPT
                                         !.stopChCloses = @ + 1,
                                         !.errorChCloses = IF shouldCloseErrChan THEN @ + 1
                                                           ELSE @],
                            !.err = IF stopErr = "err" THEN "stop" ELSE @]

\* fault: a task is launched without looking for the one already held
ensureImpersonatorIsStarted_StartsAnother(c, nd) ==
    IF nd.factory = "err"
    THEN [c EXCEPT !.err = "factory"]
    ELSE [c EXCEPT !.serverStopCh = "open", !.errorCh = "empty", !.liveTasks = @ + 1]

\* fault: a dead task is reported but its handles are kept
ensureImpersonatorIsStarted_KeepsDeadTask(c, nd) ==
    IF c.serverStopCh # "nil"
    THEN IF c.errorCh \in {"nilErr", "err"}
         THEN [c EXCEPT !.errorCh = "closed", !.err = "crash"]
         ELSE c
    ELSE IF nd.factory = "err"
    THEN [c EXCEPT !.err = "factory"]
    ELSE [c EXCEPT !.serverStopCh = "open", !.errorCh = "empty", !.liveTasks = @ + 1]

\* the proxy factory is called and, unless it fails, the task is launched
startImpersonator(c, nd) ==
    LET called == [c EXCEPT !.proc.factoryCalls = @ + 1]
    IN  IF nd.factory = "err"
        THEN [called EXCEPT !.err = "factory"]
        ELSE [called EXCEPT !.serverStopCh = "open", !.errorCh = "empty",
                            !.liveTasks = @ + 1, !.proc.launched = @ + 1]

\* fault: the value is taken from errorCh and the channel is left open
stopAfterCrash_LeavesOpen(c, shouldCloseErrChan, nd) ==
    LET received == [c EXCEPT !.errorCh = "empty"]
        stopped == ensureImpersonatorIsStopped(received, shouldCloseErrChan, nd)
    IN  [stopped EXCEPT !.err = "crash"]

\* the part of ensureImpersonatorIsStarted that follows a value received from
\* errorCh
stopAfterCrash(c, shouldCloseErrChan, nd) ==
    LET runningErr == IF c.errorCh = "nilErr" THEN "unexpected shutdown of proxy server"
                      ELSE "err"
        closed == [c EXCEPT !.errorCh = "closed", !.proc.errorChCloses = @ + 1]
        stopped == ensureImpersonatorIsStopped(closed, shouldCloseErrChan, nd)
        stoppingErr == IF stopped.err = "stop" THEN <<"stop">> ELSE <<>>
    IN  [stopped EXCEPT !.err = "crash",
                        !.proc.aggregate = <<runningErr>> \o stoppingErr]

\* fault: the forced stop closes the error channel as well
ensureImpersonatorIsStarted_ClosesTwice(c, nd) ==
    IF c.serverStopCh # "nil"
    THEN IF c.errorCh \in {"nilErr", "err"} THEN stopAfterCrash(c, TRUE, nd) ELSE c
    ELSE startImpersonator(c, nd)

\* fault: the task is started again in the call that found it dead
ensureImpersonatorIsStarted_RestartsAtOnce(c, nd) ==
    IF c.serverStopCh # "nil"
    THEN IF c.errorCh \in {"nilErr", "err"}
         THEN startImpersonator([stopAfterCrash(c, FALSE, nd) EXCEPT !.err = ""], nd)
         ELSE c
    ELSE startImpersonator(c, nd)

\* fault: the liveness check waits for the task's result
ensureImpersonatorIsStarted_BlockingCheck(c, nd) ==
    IF c.serverStopCh # "nil"
    THEN IF c.errorCh \in {"nilErr", "err"} THEN stopAfterCrash(c, FALSE, nd)
         ELSE LET g == taskReturns([errorCh |-> c.errorCh, proc |-> c.proc], "nilErr", TRUE)
              IN  stopAfterCrash([c EXCEPT !.errorCh = g.errorCh, !.proc = g.proc,
                                           !.liveTasks = @ - 1], FALSE, nd)
    ELSE startImpersonator(c, nd)

ensureImpersonatorIsStarted(c, nd) ==
    IF c.serverStopCh # "nil"
    THEN IF c.errorCh \in {"nilErr", "err"}
         THEN \* a value was waiting: close(c.errorCh), stop, return both errors
              stopAfterCrash(c, FALSE, nd)
         ELSE c
    ELSE startImpersonator(c, nd)

-----------------------------------------------------------------------------
(* Network exposure reconciler                                             *)

Overlay(existing, desired) ==
    [k \in DOMAIN existing \cup DOMAIN desired |->
        IF k \in DOMAIN desired THEN desired[k] ELSE existing[k]]

Without(ann, keys) == [k \in DOMAIN ann \ keys |-> ann[k]]

\* fault: the bookkeeping annotation is written for an empty annotation set too
withBookkeeping_Always(desiredAnn) ==
    Overlay(desiredAnn,
            [k \in {annotationKeysKey} |-> jsonMarshal(SortStrings(DOMAIN desiredAnn))])

\* the desired annotations with the bookkeeping annotation written into them
withBookkeeping(desiredAnn) ==
    LET desiredAnnotationKeys == SortStrings(DOMAIN desiredAnn)
    IN  IF Len(desiredAnnotationKeys) > 0
        THEN Overlay(desiredAnn,
                     [k \in {annotationKeysKey} |-> jsonMarshal(desiredAnnotationKeys)])
        ELSE desiredAnn

\* the annotations of the updated copy of an existing service: merge-overwrite,
\* then drop what the previous bookkeeping lists and the spec no longer has
\* fault: keys that left the spec are not removed
mergeAnnotations_NoPrune(existingAnn, specAnn) ==
    LET overlaid == Overlay(existingAnn, withBookkeeping(specAnn))
    IN  IF DOMAIN specAnn = {} THEN Without(overlaid, {annotationKeysKey}) ELSE overlaid

\* fault: the existing annotations are replaced by the desired ones
mergeAnnotations_Overwrites(existingAnn, specAnn) == withBookkeeping(specAnn)

mergeAnnotations(existingAnn, specAnn) ==
    LET desiredAnn == withBookkeeping(specAnn)
        overlaid == Overlay(existingAnn, desiredAnn)
        oldDesiredAnnotationKeys ==
            IF annotationKeysKey \in DOMAIN existingAnn
            THEN jsonUnmarshal(existingAnn[annotationKeysKey])
            ELSE <<>>
        gone == {k \in Range(oldDesiredAnnotationKeys) : k \notin DOMAIN desiredAnn}
        pruned == Without(overlaid, gone)
    IN  IF DOMAIN specAnn = {} THEN Without(pruned, {annotationKeysKey}) ELSE pruned

\* fault: an existing service is updated without comparing it with the update
createOrUpdateService_AlwaysUpdates(c, name, desiredService) ==
    LET existingService == svcCache[name]
    IN  IF existingService = <<>>
        THEN svcCreate(c, name,
                       [desiredService EXCEPT !.ann = withBookkeeping(desiredService.ann)])
        ELSE svcUpdate(c, name,
                       [existingService[1] EXCEPT
                           !.labels = desiredService.labels,
                           !.lbIP = desiredService.lbIP,
                           !.typ = desiredService.typ,
                           !.selector = desiredService.selector,
                           !.ann = mergeAnnotations(existingService[1].ann,
                                                    desiredService.ann)])

createOrUpdateService(c, name, desiredService) ==
    LET existingService == svcCache[name]
    IN  IF existingService = <<>>
        THEN svcCreate(c, name,
                       [desiredService EXCEPT !.ann = withBookkeeping(desiredService.ann)])
        ELSE LET updatedService ==
                     [existingService[1] EXCEPT
                         !.labels = desiredService.labels,
                         !.lbIP = desiredService.lbIP,
                         !.typ = desiredService.typ,
                         !.selector = desiredService.selector,
                         !.ann = mergeAnnotations(existingService[1].ann, desiredService.ann)]
             IN  IF updatedService = existingService[1] THEN c
                 ELSE svcUpdate(c, name, updatedService)

Service(typ, lbIP, ann) ==
    [typ |-> typ, lbIP |-> lbIP, labels |-> ControllerLabels, selector |-> AppSelector,
     ann |-> ann, ingress |-> <<>>, clusterIP |-> "", clusterIPs |-> <<>>]

ensureLoadBalancerIsStarted(c, config) ==
    createOrUpdateService(c, LB, Service("LoadBalancer", config.lbIP, config.ann))

\* fault: the load balancer is left in place
ensureLoadBalancerIsStopped_Keeps(c) == c

ensureLoadBalancerIsStopped(c) ==
    IF svcCache[LB] = <<>> THEN c ELSE svcDelete(c, LB)

ensureClusterIPServiceIsStarted(c, config) ==
    createOrUpdateService(c, CIP, Service("ClusterIP", "", config.ann))

ensureClusterIPServiceIsStopped(c) ==
    IF svcCache[CIP] = <<>> THEN c ELSE svcDelete(c, CIP)

-----------------------------------------------------------------------------
(* Certificate name resolver                                               *)

NotReady ==
    [ready |-> FALSE, selectedIPs |-> <<>>, selectedHostname |-> "", clientEndpoint |-> <<>>]

NameInfo(ips, hostname, endpoint) ==
    [ready |-> TRUE, selectedIPs |-> ips, selectedHostname |-> hostname,
     clientEndpoint |-> endpoint]

Resolved(info) == [info |-> info, err |-> ""]

\* fault: the default port stays in the client endpoint
findTLSCertificateNameFromEndpointConfig_KeepsDefaultPort(config) ==
    LET addr == endpointaddrParse(config.endpoint, "443")
        endpoint == addrEndpoint(addr)
        ip == ParseIP(addr.host)
    IN  IF ip # <<>>
        THEN NameInfo(ip, "", endpoint)
        ELSE NameInfo(<<>>, addr.host, endpoint)

findTLSCertificateNameFromEndpointConfig(config) ==
    LET addr == endpointaddrParse(config.endpoint, "443")
        endpoint == TrimSuffix(addrEndpoint(addr), <<":", "443">>)
        ip == ParseIP(addr.host)
    IN  IF ip # <<>>
        THEN NameInfo(ip, "", endpoint)
        ELSE NameInfo(<<>>, addr.host, endpoint)

\* the first element of s, as an optional value
First(s) == IF s = <<>> THEN <<>> ELSE <<s[1]>>

\* fault: an IP address is preferred to a hostname
findTLSCertificateNameFromLoadBalancer_PrefersIP ==
    LET lb == svcCache[LB]
    IN  IF lb = <<>> THEN Resolved(NotReady)
        ELSE LET ingresses == lb[1].ingress
                 withHostname == First(SelectSeq(ingresses, LAMBDA i : i.hostname # ""))
                 withIP == First(SelectSeq(ingresses, LAMBDA i : ParseIP(i.ip) # <<>>))
             IN  IF Len(ingresses) = 0
                    \/ (ingresses[1].hostname = "" /\ ingresses[1].ip = "")
                 THEN Resolved(NotReady)
                 ELSE IF withIP # <<>>
                 THEN Resolved(NameInfo(ParseIP(withIP[1].ip), "", <<withIP[1].ip>>))
                 ELSE IF withHostname # <<>>
                 THEN Resolved(NameInfo(<<>>, withHostname[1].hostname,
                                        <<withHostname[1].hostname>>))
                 ELSE [info |-> NotReady, err |-> "resolve"]

\* fault: an ingress list without a usable entry is taken for no ingress yet
findTLSCertificateNameFromLoadBalancer_UnusableIsNotReady ==
    LET lb == svcCache[LB]
    IN  IF lb = <<>> THEN Resolved(NotReady)
        ELSE LET ingresses == lb[1].ingress
                 withHostname == First(SelectSeq(ingresses, LAMBDA i : i.hostname # ""))
                 withIP == First(SelectSeq(ingresses, LAMBDA i : ParseIP(i.ip) # <<>>))
             IN  IF withHostname # <<>>
                 THEN Resolved(NameInfo(<<>>, withHostname[1].hostname,
                                        <<withHostname[1].hostname>>))
                 ELSE IF withIP # <<>>
                 THEN Resolved(NameInfo(ParseIP(withIP[1].ip), "", <<withIP[1].ip>>))
                 ELSE Resolved(NotReady)

\* fault: a load balancer without ingress is taken for an unusable one
findTLSCertificateNameFromLoadBalancer_NoIngressIsError ==
    LET lb == svcCache[LB]
    IN  IF lb = <<>> THEN Resolved(NotReady)
        ELSE LET ingresses == lb[1].ingress
                 withHostname == First(SelectSeq(ingresses, LAMBDA i : i.hostname # ""))
                 withIP == First(SelectSeq(ingresses, LAMBDA i : ParseIP(i.ip) # <<>>))
             IN  IF withHostname # <<>>
                 THEN Resolved(NameInfo(<<>>, withHostname[1].hostname,
                                        <<withHostname[1].hostname>>))
                 ELSE IF withIP # <<>>
                 THEN Resolved(NameInfo(ParseIP(withIP[1].ip), "", <<withIP[1].ip>>))
                 ELSE [info |-> NotReady, err |-> "resolve"]

findTLSCertificateNameFromLoadBalancer ==
    LET lb == svcCache[LB]
    IN  IF lb = <<>> THEN Resolved(NotReady)
        ELSE LET ingresses == lb[1].ingress
                 withHostname == First(SelectSeq(ingresses, LAMBDA i : i.hostname # ""))
                 withIP == First(SelectSeq(ingresses, LAMBDA i : ParseIP(i.ip) # <<>>))
             IN  IF Len(ingresses) = 0
                    \/ (ingresses[1].hostname = "" /\ ingresses[1].ip = "")
                 THEN Resolved(NotReady)
                 ELSE IF withHostname # <<>>
                 THEN Resolved(NameInfo(<<>>, withHostname[1].hostname,
                                        <<withHostname[1].hostname>>))
                 ELSE IF withIP # <<>>
                 THEN Resolved(NameInfo(ParseIP(withIP[1].ip), "", <<withIP[1].ip>>))
                 ELSE [info |-> NotReady, err |-> "resolve"]

\* net.ParseIP of each string; a string that does not parse gives the nil address 0
ParseAll(strs) ==
    [i \in 1..Len(strs) |-> IF ParseIP(strs[i]) = <<>> THEN 0 ELSE ParseIP(strs[i])[1]]

\* fault: only the first cluster IP goes into the certificate
findTLSCertificateNameFromClusterIPService_FirstOnly ==
    LET clusterIP == svcCache[CIP]
    IN  IF clusterIP = <<>> THEN Resolved(NotReady)
        ELSE LET ip == clusterIP[1].clusterIP
             IN  IF ip # ""
                 THEN Resolved(NameInfo(ParseAll(<<ip>>), "", <<ip>>))
                 ELSE Resolved(NotReady)

findTLSCertificateNameFromClusterIPService ==
    LET clusterIP == svcCache[CIP]
    IN  IF clusterIP = <<>> THEN Resolved(NotReady)
        ELSE LET ip == clusterIP[1].clusterIP
                 ips == clusterIP[1].clusterIPs
             IN  IF ip # ""
                 THEN Resolved(NameInfo(IF Len(ips) > 0 THEN ParseAll(ips)
                                        ELSE ParseAll(<<ip>>),
                                        "", <<ip>>))
                 ELSE Resolved(NotReady)

findDesiredTLSCertificateName(config) ==
    IF config.endpoint # <<>>
    THEN Resolved(findTLSCertificateNameFromEndpointConfig(config))
    ELSE IF config.svcType = "ClusterIP"
    THEN findTLSCertificateNameFromClusterIPService
    ELSE findTLSCertificateNameFromLoadBalancer

-----------------------------------------------------------------------------
(* CA and TLS secret reconciler                                            *)
(*                                                                         *)
(* A CA secret holds [id, valid]: which certificate authority its PEM pair *)
(* is, and whether certauthority.Load can parse it.  A TLS secret holds    *)
(* [pemOK, certOK, keyOK, issuer, ips, dns]: whether the certificate PEM   *)
(* decodes, whether the decoded bytes parse as a certificate, whether the  *)
(* private key belongs to it, the authority that signed it, and the names  *)
(* it covers.                                                              *)

\* tls.X509KeyPair(certPEM, keyPEM) succeeds
X509KeyPair(secret) == secret.pemOK /\ secret.certOK /\ secret.keyOK

\* ca.IssueServerCert(hostnames, ips, ...) followed by certauthority.ToPEM
IssueServerCert(ca, hostnames, ips) ==
    [pemOK |-> TRUE, certOK |-> TRUE, keyOK |-> TRUE, issuer |-> ca, ips |-> ips,
     dns |-> hostnames]

\* c.tlsServingCertDynamicCertProvider.SetCertKeyContent, and on its error
\* UnsetCertKeyContent
loadTLSCertFromSecret(c, tlsSecret) ==
    IF X509KeyPair(tlsSecret)
    THEN [c EXCEPT !.tlsServingCert = <<tlsSecret>>]
    ELSE [c EXCEPT !.tlsServingCert = <<>>, !.err = "tls-load"]

ensureTLSSecretIsRemoved(c) ==
    IF secCache[TLS] = <<>> THEN c
    ELSE IF c.secStore[TLS] = <<>>
    THEN [c EXCEPT !.calls = @ \o <<Call("delete", TLS, "NotFound")>>]
    ELSE [c EXCEPT !.calls = @ \o <<Call("delete", TLS, "ok")>>,
                   !.secStore[TLS] = <<>>,
                   !.secDirty = @ \cup {TLS},
                   !.tlsServingCert = <<>>]

\* fault: the addresses are compared as sets
certHostnameAndIPMatchDesiredState_AnyOrder(desiredIPs, actualIPs, desiredHostname, actualHostnames) ==
    IF Len(desiredIPs) > 0 /\ Len(actualIPs) > 0 /\ Len(actualIPs) = Len(desiredIPs)
       /\ Len(actualHostnames) = 0
    THEN Range(actualIPs) = Range(desiredIPs)
    ELSE desiredHostname # "" /\ Len(actualHostnames) = 1
         /\ desiredHostname = actualHostnames[1] /\ Len(actualIPs) = 0

\* fault: only a certificate for exactly one IP address is compared by address
certHostnameAndIPMatchDesiredState_SingleIP(desiredIPs, actualIPs, desiredHostname, actualHostnames) ==
    IF Len(desiredIPs) = 1 /\ Len(actualIPs) = 1 /\ Len(actualHostnames) = 0
    THEN actualIPs[1] = desiredIPs[1]
    ELSE desiredHostname # "" /\ Len(actualHostnames) = 1
         /\ desiredHostname = actualHostnames[1] /\ Len(actualIPs) = 0

certHostnameAndIPMatchDesiredState(desiredIPs, actualIPs, desiredHostname, actualHostnames) ==
    IF Len(desiredIPs) > 0 /\ Len(actualIPs) > 0 /\ Len(actualIPs) = Len(desiredIPs)
       /\ Len(actualHostnames) = 0
    THEN \A i \in 1..Len(desiredIPs) : actualIPs[i] = desiredIPs[i]
    ELSE desiredHostname # "" /\ Len(actualHostnames) = 1
         /\ desiredHostname = actualHostnames[1] /\ Len(actualIPs) = 0

\* whether the secret passes every check of
\* deleteTLSSecretWhenCertificateDoesNotMatchDesiredState, in its order
certificateMatchesDesiredState(nameInfo, ca, secret) ==
    /\ secret.pemOK
    /\ secret.certOK
    /\ X509KeyPair(secret)
    /\ secret.issuer = ca
    /\ nameInfo.ready
    /\ certHostnameAndIPMatchDesiredState(nameInfo.selectedIPs, secret.ips,
                                          nameInfo.selectedHostname, secret.dns)

\* the check at which deleteTLSSecretWhenCertificateDoesNotMatchDesiredState
\* leaves for ensureTLSSecretIsRemoved (its log message and error text name
\* it), or "none" when it reaches "return false, nil"
firstFailedCheck(nameInfo, ca, secret) ==
    IF ~secret.pemOK THEN "pem"
    ELSE IF ~secret.certOK THEN "parse"
    ELSE IF ~X509KeyPair(secret) THEN "keypair"
    ELSE IF secret.issuer # ca THEN "ca"
    ELSE IF ~nameInfo.ready THEN "ready"
    ELSE IF ~certHostnameAndIPMatchDesiredState(nameInfo.selectedIPs, secret.ips,
                                                nameInfo.selectedHostname, secret.dns)
    THEN "names"
    ELSE "none"

\* fault: no certificate is ever found to match
deleteTLSSecretWhenCertificateDoesNotMatchDesiredState_NeverMatches(c, nameInfo, ca, secret) ==
    [c |-> ensureTLSSecretIsRemoved([c EXCEPT !.tlsCheck = "names"]), deleted |-> TRUE]

\* fault: a certificate is kept while the name is not ready
deleteTLSSecretWhenCertificateDoesNotMatchDesiredState_KeepsUnready(c, nameInfo, ca, secret) ==
    LET checked == [c EXCEPT !.tlsCheck = firstFailedCheck(nameInfo, ca, secret)]
    IN  IF certificateMatchesDesiredState(nameInfo, ca, secret)
           \/ firstFailedCheck(nameInfo, ca, secret) = "ready"
        THEN [c |-> checked, deleted |-> FALSE]
        ELSE [c |-> ensureTLSSecretIsRemoved(checked), deleted |-> TRUE]

\* [c, deleted]: the pass state and secretWasDeleted
deleteTLSSecretWhenCertificateDoesNotMatchDesiredState(c, nameInfo, ca, secret) ==
    LET checked == [c EXCEPT !.tlsCheck = firstFailedCheck(nameInfo, ca, secret)]
    IN  IF certificateMatchesDesiredState(nameInfo, ca, secret)
        THEN [c |-> checked, deleted |-> FALSE]
        ELSE [c |-> ensureTLSSecretIsRemoved(checked), deleted |-> TRUE]

createNewTLSSecret(c, ca, ips, hostname) ==
    LET hostnames == IF hostname # "" THEN <<hostname>> ELSE <<>>
    IN  secCreate(c, TLS, IssueServerCert(ca, hostnames, ips))

\* fault: a newly created secret is stored but not loaded
ensureTLSSecretIsCreatedAndLoaded_StoresOnly(c, nameInfo, secret, ca) ==
    IF secret # <<>> THEN loadTLSCertFromSecret(c, secret[1])
    ELSE IF ~nameInfo.ready THEN c
    ELSE createNewTLSSecret(c, ca, nameInfo.selectedIPs, nameInfo.selectedHostname)

ensureTLSSecretIsCreatedAndLoaded(c, nameInfo, secret, ca) ==
    IF secret # <<>> THEN loadTLSCertFromSecret(c, secret[1])
    ELSE IF ~nameInfo.ready THEN c
    ELSE LET created == createNewTLSSecret(c, ca, nameInfo.selectedIPs,
                                           nameInfo.selectedHostname)
         IN  IF created.err # "" THEN created
             ELSE loadTLSCertFromSecret(created, created.secStore[TLS][1])

\* fault: after deleting the secret the pass still works with the cached copy
ensureTLSSecret_KeepsCachedCopy(c, nameInfo, ca) ==
    LET secretFromInformer == secCache[TLS]
    IN  IF secretFromInformer = <<>>
        THEN ensureTLSSecretIsCreatedAndLoaded(c, nameInfo, <<>>, ca)
        ELSE LET d == deleteTLSSecretWhenCertificateDoesNotMatchDesiredState(
                          c, nameInfo, ca, secretFromInformer[1])
             IN  IF d.c.err # "" THEN d.c
                 ELSE ensureTLSSecretIsCreatedAndLoaded(d.c, nameInfo, secretFromInformer, ca)

ensureTLSSecret(c, nameInfo, ca) ==
    LET secretFromInformer == secCache[TLS]
    IN  IF secretFromInformer = <<>>
        THEN ensureTLSSecretIsCreatedAndLoaded(c, nameInfo, <<>>, ca)
        ELSE LET d == deleteTLSSecretWhenCertificateDoesNotMatchDesiredState(
                          c, nameInfo, ca, secretFromInformer[1])
             IN  IF d.c.err # "" THEN d.c
                 ELSE ensureTLSSecretIsCreatedAndLoaded(
                          d.c, nameInfo,
                          IF d.deleted THEN <<>> ELSE secretFromInformer, ca)

\* certauthority.New, then Create of the CA secret
createCASecret(c) ==
    LET impersonationCA == c.caCount + 1
        created == secCreate(c, CA, [id |-> impersonationCA, valid |-> TRUE])
    IN  IF created.err # "" THEN created
        ELSE [created EXCEPT !.ca = <<impersonationCA>>, !.caCount = impersonationCA]

\* fault: a CA secret that does not load is replaced by a new authority
ensureCASecretIsCreated_Replaces(c) ==
    LET caSecret == secCache[CA]
        impersonationCA == c.caCount + 1
    IN  IF caSecret = <<>> THEN createCASecret(c)
        ELSE IF caSecret[1].valid THEN [c EXCEPT !.ca = <<caSecret[1].id>>]
        ELSE [c EXCEPT !.calls = @ \o <<Call("update", CA, "ok")>>,
                       !.secStore[CA] = <<[id |-> impersonationCA, valid |-> TRUE]>>,
                       !.secDirty = @ \cup {CA},
                       !.ca = <<impersonationCA>>,
                       !.caCount = impersonationCA]

\* sets c.ca to the authority in use
ensureCASecretIsCreated(c) ==
    LET caSecret == secCache[CA]
    IN  IF caSecret = <<>> THEN createCASecret(c)
        ELSE IF caSecret[1].valid THEN [c EXCEPT !.ca = <<caSecret[1].id>>]
        ELSE [c EXCEPT !.err = "ca-load"]

-----------------------------------------------------------------------------
(* Status composer and signing credential loader                           *)

Strategy(st, reason, message, frontend) ==
    [status |-> st, reason |-> reason, message |-> message, frontend |-> frontend]

base64Encode(bytes) == <<"base64", bytes>>

\* fault: a name that is not ready is reported before a disabled proxy is
doSyncResult_PendingFirst(nameInfo, config, ca, hcp) ==
    IF ~nameInfo.ready
    THEN Strategy("Error", "Pending",
                  "waiting for load balancer Service to be assigned IP or hostname", <<>>)
    ELSE IF disabledExplicitly(config)
    THEN Strategy("Error", "Disabled",
                  "impersonation proxy was explicitly disabled by configuration", <<>>)
    ELSE IF disabledByAutoMode(config, hcp)
    THEN Strategy("Error", "Disabled",
                  "automatically determined that impersonation proxy should be disabled", <<>>)
    ELSE Strategy("Success", "Listening",
                  "impersonation proxy is ready to accept client connections",
                  <<[endpoint |-> <<"https://">> \o nameInfo.clientEndpoint,
                     caData |-> base64Encode(ca[1])]>>)

doSyncResult(nameInfo, config, ca, hcp) ==
    IF disabledExplicitly(config)
    THEN Strategy("Error", "Disabled",
                  "impersonation proxy was explicitly disabled by configuration", <<>>)
    ELSE IF disabledByAutoMode(config, hcp)
    THEN Strategy("Error", "Disabled",
                  "automatically determined that impersonation proxy should be disabled", <<>>)
    ELSE IF ~nameInfo.ready
    THEN Strategy("Error", "Pending",
                  "waiting for load balancer Service to be assigned IP or hostname", <<>>)
    ELSE Strategy("Success", "Listening",
                  "impersonation proxy is ready to accept client connections",
                  <<[endpoint |-> <<"https://">> \o nameInfo.clientEndpoint,
                     caData |-> base64Encode(ca[1])]>>)

\* fault: every error is reported as a setup error
strategyReasonForError_AlwaysSetupError(err) == "ErrorDuringSetup"

strategyReasonForError(err) ==
    IF err \in {"Conflict", "AlreadyExists"} THEN "Pending" ELSE "ErrorDuringSetup"

clearSignerCA(c) == [c EXCEPT !.signingCert = "unset"]

\* fault: the signing certificate is left as it is when the status is no success
loadSignerCA_KeepsWhenNotSuccess(c, st) ==
    IF st # "Success" THEN c
    ELSE LET signingCertSecret == secCache[SIGNER]
         IN  IF signingCertSecret = <<>> THEN [c EXCEPT !.err = "signer-not-found"]
             ELSE IF ~signingCertSecret[1].valid THEN [c EXCEPT !.err = "signer-load"]
             ELSE [c EXCEPT !.signingCert = "set"]

\* fault: a signer secret that is missing or does not load is passed over
loadSignerCA_IgnoresMissing(c, st) ==
    IF st # "Success" THEN clearSignerCA(c)
    ELSE LET signingCertSecret == secCache[SIGNER]
         IN  IF signingCertSecret = <<>> \/ ~signingCertSecret[1].valid THEN c
             ELSE [c EXCEPT !.signingCert = "set"]

loadSignerCA(c, st) ==
    IF st # "Success" THEN clearSignerCA(c)
    ELSE LET signingCertSecret == secCache[SIGNER]
         IN  IF signingCertSecret = <<>> THEN [c EXCEPT !.err = "signer-not-found"]
             ELSE IF ~signingCertSecret[1].valid THEN [c EXCEPT !.err = "signer-load"]
             ELSE [c EXCEPT !.signingCert = "set"]

-----------------------------------------------------------------------------
(* The sync pass                                                           *)

\* fault: the topology is asked for in every pass
queryControlPlaneNodes_AlwaysAsks(c, nd) ==
    IF nd.cp = "err" THEN [c EXCEPT !.cpQueries = @ + 1, !.err = "topology"]
    ELSE [c EXCEPT !.cpQueries = @ + 1, !.hasControlPlaneNodes = nd.cp]

\* clusterhost.New(c.k8sClient).HasControlPlaneNodes(ctx), asked only while
\* nothing is cached; nd.cp is its answer
queryControlPlaneNodes(c, nd) ==
    IF c.hasControlPlaneNodes # "nil" THEN c
    ELSE IF nd.cp = "err" THEN [c EXCEPT !.cpQueries = @ + 1, !.err = "topology"]
    ELSE [c EXCEPT !.cpQueries = @ + 1, !.hasControlPlaneNodes = nd.cp]

toggleImpersonator(c, config, nd) ==
    IF shouldHaveImpersonator(config, c.hasControlPlaneNodes)
    THEN ensureImpersonatorIsStarted(c, nd)
    ELSE ensureImpersonatorIsStopped(c, TRUE, nd)

toggleLoadBalancer(c, config) ==
    IF shouldHaveLoadBalancer(config, c.hasControlPlaneNodes)
    THEN ensureLoadBalancerIsStarted(c, config)
    ELSE ensureLoadBalancerIsStopped(c)

toggleClusterIPService(c, config) ==
    IF shouldHaveClusterIPService(config, c.hasControlPlaneNodes)
    THEN ensureClusterIPServiceIsStarted(c, config)
    ELSE ensureClusterIPServiceIsStopped(c)

\* fault: a failed name resolution leaves the loaded certificate in place
resolveName_KeepsCertificate(c, config) ==
    LET found == findDesiredTLSCertificateName(config)
    IN  IF found.err # ""
        THEN [c EXCEPT !.named = TRUE, !.err = found.err]
        ELSE [c EXCEPT !.named = TRUE, !.nameInfo = found.info]

resolveName(c, config) ==
    LET found == findDesiredTLSCertificateName(config)
    IN  IF found.err # ""
        THEN [c EXCEPT !.named = TRUE, !.tlsServingCert = <<>>, !.err = found.err]
        ELSE [c EXCEPT !.named = TRUE, !.nameInfo = found.info]

reconcileSecrets(c, config) ==
    IF shouldHaveTLSSecret(config, c.hasControlPlaneNodes)
    THEN LET withCA == ensureCASecretIsCreated(c)
         IN  IF withCA.err # "" THEN withCA
             ELSE ensureTLSSecret(withCA, withCA.nameInfo, withCA.ca[1])
    ELSE ensureTLSSecretIsRemoved(c)

composeStatus(c, config) ==
    [c EXCEPT !.result = <<doSyncResult(c.nameInfo, config, c.ca, c.hasControlPlaneNodes)>>]

updateSigningCert(c) == loadSignerCA(c, c.result[1].status)

\* the steps of doSync in source order, after loadImpersonationProxyConfiguration
doSyncSteps ==
    <<"queryControlPlaneNodes", "toggleImpersonator", "toggleLoadBalancer",
      "toggleClusterIPService", "resolveName", "reconcileSecrets", "composeStatus",
      "updateSigningCert">>

\* fault: the pass goes on with a spec that failed validation
returnsError_UnlessInvalidSpec(c) ==
    c.err # "" /\ c.steps # <<"loadImpersonationProxyConfiguration">>

\* fault: a step's error is kept for the end of the pass
returnsError_AtTheEnd(c) == FALSE

\* if err != nil { return nil, err }
returnsError(c) == c.err # ""

doSync(c, nd) ==
    LET loaded == loadImpersonationProxyConfiguration(spec)
        config == loaded.config
        \* run a step on the outcome of the steps before it, unless one of them
        \* already ended the pass with an error
        Then(before, step, F(_)) ==
            CHOOSE after \in {IF returnsError(v) THEN v
                              ELSE F([v EXCEPT !.steps = @ \o <<step>>]) : v \in {before}} : TRUE
        validated == [c EXCEPT !.steps = <<"loadImpersonationProxyConfiguration">>,
                               !.err = loaded.err]
    IN  Then(Then(Then(Then(Then(Then(Then(Then(validated,
            doSyncSteps[1], LAMBDA c0 : queryControlPlaneNodes(c0, nd)),
            doSyncSteps[2], LAMBDA c1 : toggleImpersonator(c1, config, nd)),
            doSyncSteps[3], LAMBDA c2 : toggleLoadBalancer(c2, config)),
            doSyncSteps[4], LAMBDA c3 : toggleClusterIPService(c3, config)),
            doSyncSteps[5], LAMBDA c4 : resolveName(c4, config)),
            doSyncSteps[6], LAMBDA c5 : reconcileSecrets(c5, config)),
            doSyncSteps[7], LAMBDA c6 : composeStatus(c6, config)),
            doSyncSteps[8], LAMBDA c7 : updateSigningCert(c7))

\* the controller's fields and the cluster, as a sync pass finds them
PassStart ==
    [hasControlPlaneNodes |-> hasControlPlaneNodes,
     serverStopCh |-> serverStopCh,
     errorCh |-> errorCh,
     liveTasks |-> liveTasks,
     tlsServingCert |-> tlsServingCert,
     signingCert |-> signingCert,
     svcStore |-> svcStore,
     svcDirty |-> svcDirty,
     secStore |-> secStore,
     secDirty |-> secDirty,
     caCount |-> caCount,
     calls |-> <<>>,
     err |-> "",
     named |-> FALSE,
     nameInfo |-> NotReady,
     ca |-> <<>>,
     tlsCheck |-> "",
     proc |-> NoProc,
     cpQueries |-> 0,
     steps |-> <<>>,
     result |-> <<>>]

\* the outcomes a pass does not decide, where it can meet them
Outcomes ==
    [cp : IF hasControlPlaneNodes = "nil" THEN {"true", "false", "err"}
          ELSE {hasControlPlaneNodes},
     factory : IF serverStopCh = "nil" THEN {"ok", "err"} ELSE {"ok"},
     stopErr : IF errorCh = "empty" THEN {"nil", "err"} ELSE {"nil"}]

CachesFresh ==
    svcCache = svcStore /\ secCache = secStore /\ svcDirty = {} /\ secDirty = {}

NoShould == [impersonator |-> FALSE, loadBalancer |-> FALSE, clusterIP |-> FALSE,
             tlsSecret |-> FALSE]

\* What a pass leaves for inspection: what it did and what it found when it
\* started.  A pass changes neither the spec nor the caches, so in the state
\* right after it they are still what it read.
\*   fresh:      the caches were up to date with the store when the pass started
\*   wasRunning: the controller held a proxy task when the pass started
\*   crashed:    it did, and the task had already sent its result on errorCh
\*   settled:    the pass returned no error and its caches were up to date; an
\*               informer catching up afterwards keeps this
\*   afterPass:  the step before this pass was a pass that returned no error
\*   repeats:    the pass ran with up-to-date caches after a settled pass, with
\*               nothing but informers catching up in between
\*   afterCrash: the step before this pass was a pass that wanted the proxy and
\*               found its task dead
\*   named:      the pass got as far as findDesiredTLSCertificateName
\*   published:  how many strategies the pass handed to issuerconfig.Update
\*   signerWasSet: the signing certificate provider held a certificate when
\*               the pass started
\*   certWasLoaded: the serving-certificate provider held a certificate when
\*               the pass started
\*   composed:   the strategy that doSyncResult composed, if the pass got there
\*   proc:       what the pass did to the proxy task and its channels
\*   errorChWas: c.errorCh when the pass started
\*   afterExit:  the step before this pass was the proxy task returning
\*   cpQueries:  how many times the pass asked for the control-plane topology
\*   steps:      the steps of doSync that the pass ran, in the order run
\*   prevErr:    the error of the pass right before this one, "" when the step
\*               before was no pass or a pass that returned no error
\*   tlsCheck:   the check that made the pass give up the cached TLS secret,
\*               "none" when it passed them all, "" when none was made
PassRecord(c) ==
    LET loaded == loadImpersonationProxyConfiguration(spec)
        resolved == loaded.err = "" /\ c.hasControlPlaneNodes # "nil"
    IN  [op |-> "Sync",
         calls |-> c.calls,
         err |-> c.err,
         resolved |-> resolved,
         should |-> IF resolved
                    THEN [impersonator |->
                              shouldHaveImpersonator(loaded.config, c.hasControlPlaneNodes),
                          loadBalancer |->
                              shouldHaveLoadBalancer(loaded.config, c.hasControlPlaneNodes),
                          clusterIP |->
                              shouldHaveClusterIPService(loaded.config, c.hasControlPlaneNodes),
                          tlsSecret |->
                              shouldHaveTLSSecret(loaded.config, c.hasControlPlaneNodes)]
                    ELSE NoShould,
         named |-> c.named,
         nameInfo |-> c.nameInfo,
         ca |-> c.ca,
         fresh |-> CachesFresh,
         wasRunning |-> serverStopCh # "nil",
         crashed |-> serverStopCh # "nil" /\ errorCh \in {"nilErr", "err"},
         settled |-> c.err = "" /\ CachesFresh,
         afterPass |-> last.op = "Sync" /\ last.err = "",
         repeats |-> last.settled /\ CachesFresh,
         afterCrash |-> last.op = "Sync" /\ last.crashed /\ last.should.impersonator,
         published |-> 1,
         signerWasSet |-> signingCert = "set",
         certWasLoaded |-> tlsServingCert # <<>>,
         composed |-> c.result,
         proc |-> c.proc,
         errorChWas |-> errorCh,
         afterExit |-> last.op = "TaskExit",
         cpQueries |-> c.cpQueries,
         steps |-> c.steps,
         prevErr |-> IF last.op = "Sync" THEN last.err ELSE "",
         tlsCheck |-> c.tlsCheck]

NotAPass(op) ==
    [op |-> op, calls |-> <<>>, err |-> "", resolved |-> FALSE, should |-> NoShould,
     named |-> FALSE, nameInfo |-> NotReady, ca |-> <<>>, fresh |-> FALSE,
     wasRunning |-> FALSE,
     crashed |-> FALSE, settled |-> FALSE, afterPass |-> FALSE, repeats |-> FALSE,
     afterCrash |-> FALSE, published |-> 0, signerWasSet |-> FALSE,
     certWasLoaded |-> FALSE, composed |-> <<>>, proc |-> NoProc,
     errorChWas |-> "nil", afterExit |-> FALSE, cpQueries |-> 0, prevErr |-> "",
     steps |-> <<>>, tlsCheck |-> ""]

CatchUp == [NotAPass("CatchUp") EXCEPT !.settled = last.settled]

\* a pass that ended before doSync: the CredentialIssuer was not found
NoCredentialIssuer ==
    [NotAPass("SyncNoIssuer") EXCEPT !.err = "could not get CredentialIssuer to update"]

\* what the writes of one replica's pass do to the informer caches of the
\* other: what was written is newer than what that replica has cached
SeesWrites(replica, calls) ==
    LET written(names) == {n \in names : \E i \in 1..Len(calls) :
                              calls[i].name = n /\ calls[i].res = "ok"}
    IN  [replica EXCEPT !.svcDirty = @ \cup written(SvcNames),
                        !.secDirty = @ \cup written(SecNames)]

\* fault: the error of the pass is reported without its text
syncStrategy_NoMessage(c) ==
    IF c.err # ""
    THEN Strategy("Error", strategyReasonForError(c.err), "", <<>>)
    ELSE c.result[1]

\* the strategy that Sync hands to issuerconfig.Update
syncStrategy(c) ==
    IF c.err # ""
    THEN Strategy("Error", strategyReasonForError(c.err), c.err, <<>>)
    ELSE c.result[1]

Sync ==
    IF ~credIssuerFound
    THEN /\ last' = NoCredentialIssuer
         /\ UNCHANGED <<credIssuerFound, spec, hasControlPlaneNodes, serverStopCh, errorCh,
                        liveTasks, tlsServingCert, signingCert, svcStore, svcCache, svcDirty,
                        secStore, secCache, secDirty, caCount, status, envSteps, standby>>
    ELSE \E nd \in Outcomes : \E c \in {doSync(PassStart, nd)} :
            /\ c.caCount <= MaxCA
            /\ hasControlPlaneNodes' = c.hasControlPlaneNodes
            /\ serverStopCh' = c.serverStopCh
            /\ errorCh' = c.errorCh
            /\ liveTasks' = c.liveTasks
            /\ tlsServingCert' = c.tlsServingCert
            /\ signingCert' = IF c.err # "" THEN "unset" ELSE c.signingCert
            /\ svcStore' = c.svcStore
            /\ svcDirty' = c.svcDirty
            /\ secStore' = c.secStore
            /\ secDirty' = c.secDirty
            /\ caCount' = c.caCount
            /\ status' = <<syncStrategy(c)>>
            /\ last' = PassRecord(c)
            /\ standby' = [i \in DOMAIN standby |-> SeesWrites(standby[i], c.calls)]
            /\ UNCHANGED <<credIssuerFound, spec, svcCache, secCache, envSteps>>

-----------------------------------------------------------------------------
(* The background proxy task and the informers                             *)

\* startImpersonatorFunc returns on its own and the task sends its result
TaskExit ==
    /\ liveTasks > 0
    /\ \E result \in {"nilErr", "err"} :
           \E g \in {taskReturns([errorCh |-> errorCh, proc |-> NoProc], result, FALSE)} :
               /\ errorCh' = g.errorCh
               /\ liveTasks' = IF g.proc.fault = "" THEN liveTasks - 1 ELSE liveTasks
               /\ last' = [NotAPass("TaskExit") EXCEPT !.proc = g.proc]
    /\ UNCHANGED <<credIssuerFound, spec, hasControlPlaneNodes, serverStopCh, tlsServingCert,
                   signingCert,
                   svcStore, svcCache, svcDirty, secStore, secCache, secDirty, caCount,
                   status, envSteps, standby>>

SyncServicesCache ==
    /\ svcCache # svcStore \/ svcDirty # {}
    /\ svcCache' = svcStore
    /\ svcDirty' = {}
    /\ last' = CatchUp
    /\ UNCHANGED <<credIssuerFound, spec, hasControlPlaneNodes, serverStopCh, errorCh, liveTasks,
                   tlsServingCert,
                   signingCert, svcStore, secStore, secCache, secDirty, caCount, status,
                   envSteps, standby>>

SyncSecretsCache ==
    /\ secCache # secStore \/ secDirty # {}
    /\ secCache' = secStore
    /\ secDirty' = {}
    /\ last' = CatchUp
    /\ UNCHANGED <<credIssuerFound, spec, hasControlPlaneNodes, serverStopCh, errorCh, liveTasks,
                   tlsServingCert,
                   signingCert, svcStore, svcCache, svcDirty, secStore, caCount, status,
                   envSteps, standby>>

-----------------------------------------------------------------------------
(* Actors other than this controller                                       *)

ImpersonationProxySpec(mode, svcType, endpoint, ann) ==
    [mode |-> mode, svcType |-> svcType, lbIP |-> "", endpoint |-> endpoint, ann |-> ann]

IPEndpoint == <<"198.51.100.9", ":", "443">>
HostEndpoint == <<"new.example.com">>

OneAnnotation == [k \in {"a"} |-> <<"1">>]

\* the specs a CredentialIssuer is given here; an edit (ChangeSpec) changes one field
Specs ==
    {ImpersonationProxySpec(m, t, e, EmptyAnn) :
        m \in Modes, t \in ServiceTypes, e \in {<<>>, IPEndpoint, HostEndpoint}}
    \cup {ImpersonationProxySpec("enabled", t, <<>>, OneAnnotation) :
            t \in {"LoadBalancer", "ClusterIP"}}
    \cup {ImpersonationProxySpec("enabled", "", <<>>, EmptyAnn),
          ImpersonationProxySpec("sometimes", "LoadBalancer", <<>>, EmptyAnn)}

Ingress(hostname, ip) == [hostname |-> hostname, ip |-> ip]

\* the ingress lists a load balancer is given here
IngressChoices ==
    {<<Ingress("", "10.0.0.5")>>,
     <<Ingress("old.example.com", "")>>,
     <<Ingress("new.example.com", "")>>,
     <<Ingress("", "not-an-ip")>>}

\* the cluster IPs a cluster-internal service is given here
ClusterIPChoices ==
    {[clusterIP |-> "10.0.0.5", clusterIPs |-> <<>>],
     [clusterIP |-> "10.0.0.5", clusterIPs |-> <<"10.0.0.5", "10.0.0.6">>]}

EnvStep ==
    /\ envSteps < MaxEnv
    /\ envSteps' = envSteps + 1
    /\ last' = NotAPass("env")

ChangeSpec ==
    /\ EnvStep
    /\ \E s \in Specs :
           /\ Cardinality({f \in {"mode", "svcType", "endpoint", "ann"} : s[f] # spec[f]}) = 1
           /\ spec' = s
    /\ UNCHANGED <<credIssuerFound, hasControlPlaneNodes, serverStopCh, errorCh, liveTasks,
                   tlsServingCert, signingCert,
                   svcStore, svcCache, svcDirty, secStore, secCache, secDirty, caCount,
                   status, standby>>

\* the CredentialIssuer is deleted, or created again with the spec it had
CredentialIssuerChange ==
    /\ EnvStep
    /\ credIssuerFound' = ~credIssuerFound
    /\ UNCHANGED <<spec, hasControlPlaneNodes, serverStopCh, errorCh, liveTasks,
                   tlsServingCert, signingCert, svcStore, svcCache, svcDirty, secStore,
                   secCache, secDirty, caCount, status, standby>>

ServiceWrite(name, obj) ==
    /\ EnvStep
    /\ svcStore[name] # obj
    /\ svcStore' = [svcStore EXCEPT ![name] = obj]
    /\ svcDirty' = svcDirty \cup {name}
    /\ UNCHANGED <<credIssuerFound, spec, hasControlPlaneNodes, serverStopCh, errorCh, liveTasks,
                   tlsServingCert,
                   signingCert, svcCache, secStore, secCache, secDirty, caCount, status, standby>>

\* the cloud provider assigns the load balancer its ingress
AssignIngress ==
    /\ svcStore[LB] # <<>>
    /\ \E ing \in IngressChoices :
           ServiceWrite(LB, <<[svcStore[LB][1] EXCEPT !.ingress = ing]>>)

\* the cluster assigns the cluster-internal service its addresses
AssignClusterIP ==
    /\ svcStore[CIP] # <<>>
    /\ \E a \in ClusterIPChoices :
           ServiceWrite(CIP, <<[svcStore[CIP][1] EXCEPT !.clusterIP = a.clusterIP,
                                                        !.clusterIPs = a.clusterIPs]>>)

-----------------------------------------------------------------------------
(* Specification: the controller, edits of the spec, address assignment   *)
(* and exits of the proxy task, starting from an empty cluster             *)

NoServices == [n \in SvcNames |-> <<>>]

Init ==
    /\ credIssuerFound = TRUE
    /\ spec \in Specs
    /\ hasControlPlaneNodes = "nil"
    /\ serverStopCh = "nil"
    /\ errorCh = "nil"
    /\ liveTasks = 0
    /\ tlsServingCert = <<>>
    /\ signingCert = "unset"
    /\ svcStore = NoServices
    /\ svcCache = NoServices
    /\ svcDirty = {}
    /\ secStore = [n \in SecNames |-> IF n = SIGNER THEN <<[valid |-> TRUE]>> ELSE <<>>]
    /\ secCache = secStore
    /\ secDirty = {}
    /\ caCount = 0
    /\ status = <<>>
    /\ last = NotAPass("init")
    /\ envSteps = 0
    /\ standby = <<>>

Next ==
    \/ Sync
    \/ TaskExit
    \/ SyncServicesCache
    \/ SyncSecretsCache
    \/ ChangeSpec
    \/ CredentialIssuerChange
    \/ AssignIngress
    \/ AssignClusterIP

Spec == Init /\ [][Next]_vars

-----------------------------------------------------------------------------
(* Specification of annotation handling: the proxy stays enabled behind an *)
(* external endpoint, while the spec's author edits the service            *)
(* annotations or the service type and somebody else edits the annotations *)
(* of the service itself                                                   *)

AnnotationValue == ("a" :> <<"1">>) @@ ("b" :> <<"2">>) @@ ("c" :> <<"3">>)

\* the annotation sets a spec asks for here
AnnotationSets == {[k \in S |-> AnnotationValue[k]] : S \in SUBSET DOMAIN AnnotationValue}

AnnotationSpecs ==
    {ImpersonationProxySpec("enabled", t, IPEndpoint, ann) :
        t \in {"LoadBalancer", "ClusterIP"}, ann \in AnnotationSets}

Edit ==
    /\ envSteps < MaxEdits
    /\ envSteps' = envSteps + 1
    /\ last' = NotAPass("env")

ChangeAnnotations ==
    /\ Edit
    /\ \E s \in AnnotationSpecs :
           /\ Cardinality({f \in {"svcType", "ann"} : s[f] # spec[f]}) = 1
           /\ spec' = s
    /\ UNCHANGED <<credIssuerFound, hasControlPlaneNodes, serverStopCh, errorCh, liveTasks,
                   tlsServingCert, signingCert,
                   svcStore, svcCache, svcDirty, secStore, secCache, secDirty, caCount,
                   status, standby>>

\* what somebody else does to a service's annotations: set a key to a value of
\* their own, remove a key, or overwrite the bookkeeping annotation with text
\* that is no JSON array
ThirdPartyEdits(ann) ==
    {Overlay(ann, [k \in {key} |-> <<"x">>]) : key \in DOMAIN AnnotationValue}
    \cup {Without(ann, {key}) : key \in DOMAIN ann}
    \cup {Overlay(ann, [k \in {annotationKeysKey} |-> <<"oops">>])}

ThirdPartyEditsAnnotations ==
    /\ Edit
    /\ \E name \in SvcNames :
           /\ svcStore[name] # <<>>
           /\ \E ann \in ThirdPartyEdits(svcStore[name][1].ann) :
                  /\ ann # svcStore[name][1].ann
                  /\ svcStore' = [svcStore EXCEPT ![name] = <<[@[1] EXCEPT !.ann = ann]>>]
                  /\ svcDirty' = svcDirty \cup {name}
    /\ UNCHANGED <<credIssuerFound, spec, hasControlPlaneNodes, serverStopCh, errorCh, liveTasks,
                   tlsServingCert,
                   signingCert, svcCache, secStore, secCache, secDirty, caCount, status, standby>>

\* the controller has brought the proxy up for the spec and its caches have
\* caught up: the task runs, the spec's service exists as created, and the TLS
\* secret covers the external endpoint
InitSvc ==
    /\ credIssuerFound = TRUE
    /\ spec \in AnnotationSpecs
    /\ hasControlPlaneNodes = "false"
    /\ serverStopCh = "open"
    /\ errorCh = "empty"
    /\ liveTasks = 1
    /\ LET config == loadImpersonationProxyConfiguration(spec).config
           nameInfo == findTLSCertificateNameFromEndpointConfig(config)
           name == IF config.svcType = "LoadBalancer" THEN LB ELSE CIP
           service == [Service(config.svcType, config.lbIP, config.ann)
                           EXCEPT !.ann = withBookkeeping(config.ann)]
       IN  /\ svcStore = [n \in SvcNames |-> IF n = name THEN <<service>> ELSE <<>>]
           /\ secStore = [n \in SecNames |->
                             CASE n = SIGNER -> <<[valid |-> TRUE]>>
                               [] n = CA -> <<[id |-> 1, valid |-> TRUE]>>
                               [] n = TLS -> <<IssueServerCert(1, <<>>, nameInfo.selectedIPs)>>]
           /\ status = <<doSyncResult(nameInfo, config, <<1>>, "false")>>
    /\ svcCache = svcStore
    /\ svcDirty = {}
    /\ secCache = secStore
    /\ secDirty = {}
    /\ tlsServingCert = secStore[TLS]
    /\ signingCert = "set"
    /\ caCount = 1
    /\ last = NotAPass("init")
    /\ envSteps = 0
    /\ standby = <<>>

NextSvc ==
    \/ Sync
    \/ SyncServicesCache
    \/ ChangeAnnotations
    \/ ThirdPartyEditsAnnotations

SpecSvc == InitSvc /\ [][NextSvc]_vars

-----------------------------------------------------------------------------
(* Specification of secret handling: the proxy has been brought up and its *)
(* caches have caught up; then somebody else overwrites or deletes the      *)
(* secrets, deletes a service, or edits the spec                            *)

\* writes and deletes by others, and spec edits, in one behaviour of the
\* secret-handling specification
MaxActs == 2

LBAddress == <<Ingress("", "10.0.0.5")>>

UnusableIngress == <<Ingress("", "not-an-ip")>>

\* the specs the proxy runs with here, and the ones it is edited to
ActorSpecs ==
    {ImpersonationProxySpec("enabled", "LoadBalancer", IPEndpoint, EmptyAnn),
     ImpersonationProxySpec("enabled", "LoadBalancer", <<>>, EmptyAnn),
     ImpersonationProxySpec("enabled", "ClusterIP", <<>>, EmptyAnn)}

EditedSpecs ==
    ActorSpecs
    \cup {ImpersonationProxySpec("disabled", "LoadBalancer", <<>>, EmptyAnn),
          ImpersonationProxySpec("sometimes", "LoadBalancer", <<>>, EmptyAnn)}

Act ==
    /\ envSteps < MaxActs
    /\ envSteps' = envSteps + 1
    /\ last' = NotAPass("env")

EditSpec ==
    /\ Act
    /\ \E s \in EditedSpecs :
           /\ Cardinality({f \in {"mode", "svcType", "endpoint"} : s[f] # spec[f]}) = 1
           /\ spec' = s
    /\ UNCHANGED <<credIssuerFound, hasControlPlaneNodes, serverStopCh, errorCh, liveTasks,
                   tlsServingCert, signingCert, svcStore, svcCache, svcDirty, secStore,
                   secCache, secDirty, caCount, status, standby>>

\* what somebody else makes of a TLS secret: a certificate that is no PEM, PEM
\* that is no certificate, a private key of another certificate, a
\* certificate of an authority nobody knows, or a certificate for other names
TamperedTLS(secret) ==
    {[secret EXCEPT !.pemOK = FALSE],
     [secret EXCEPT !.certOK = FALSE],
     [secret EXCEPT !.keyOK = FALSE],
     [secret EXCEPT !.issuer = 0],
     [secret EXCEPT !.ips = <<6>>, !.dns = <<>>],
     [secret EXCEPT !.ips = <<>>, !.dns = <<"old.example.com">>]}

SecretWrite(name, obj) ==
    /\ Act
    /\ secStore[name] # obj
    /\ secStore' = [secStore EXCEPT ![name] = obj]
    /\ secDirty' = secDirty \cup {name}
    /\ UNCHANGED <<credIssuerFound, spec, hasControlPlaneNodes, serverStopCh, errorCh,
                   liveTasks, tlsServingCert, signingCert, svcStore, svcCache, svcDirty,
                   secCache, caCount, status, standby>>

OtherActorWritesTLSSecret ==
    /\ secStore[TLS] # <<>>
    /\ \E tampered \in TamperedTLS(secStore[TLS][1]) : SecretWrite(TLS, <<tampered>>)

\* the CA secret or the signer secret is overwritten with data that does not load
OtherActorWritesCASecret ==
    /\ secStore[CA] # <<>> \/ secStore[SIGNER] # <<>>
    /\ \E name \in {CA, SIGNER} :
           /\ secStore[name] # <<>>
           /\ SecretWrite(name, <<[secStore[name][1] EXCEPT !.valid = FALSE]>>)

OtherActorDeletesSecret ==
    /\ secStore # [n \in SecNames |-> <<>>]
    /\ \E name \in SecNames : SecretWrite(name, <<>>)

OtherActorDeletesService ==
    /\ Act
    /\ \E name \in SvcNames :
           /\ svcStore[name] # <<>>
           /\ svcStore' = [svcStore EXCEPT ![name] = <<>>]
           /\ svcDirty' = svcDirty \cup {name}
    /\ UNCHANGED <<credIssuerFound, spec, hasControlPlaneNodes, serverStopCh, errorCh,
                   liveTasks, tlsServingCert, signingCert, svcCache, secStore, secCache,
                   secDirty, caCount, status, standby>>

\* the load balancer's ingress list is replaced by one without a usable entry
OtherActorWritesIngress ==
    /\ Act
    /\ svcStore[LB] # <<>>
    /\ svcStore[LB][1].ingress # UnusableIngress
    /\ svcStore' = [svcStore EXCEPT ![LB] = <<[@[1] EXCEPT !.ingress = UnusableIngress]>>]
    /\ svcDirty' = svcDirty \cup {LB}
    /\ UNCHANGED <<credIssuerFound, spec, hasControlPlaneNodes, serverStopCh, errorCh,
                   liveTasks, tlsServingCert, signingCert, svcCache, secStore, secCache,
                   secDirty, caCount, status, standby>>

\* the controller has brought the proxy up for the spec and its caches have
\* caught up: the task runs, the spec's service has its address, and the TLS
\* secret covers the resolved name
InitActors ==
    /\ credIssuerFound = TRUE
    /\ spec \in ActorSpecs
    /\ hasControlPlaneNodes = "false"
    /\ serverStopCh = "open"
    /\ errorCh = "empty"
    /\ liveTasks = 1
    /\ svcStore = [n \in SvcNames |->
                      CASE n = LB /\ spec.svcType = "LoadBalancer" ->
                               <<[Service("LoadBalancer", "", EmptyAnn)
                                     EXCEPT !.ingress = LBAddress]>>
                        [] n = CIP /\ spec.svcType = "ClusterIP" ->
                               <<[Service("ClusterIP", "", EmptyAnn)
                                     EXCEPT !.clusterIP = "10.0.0.6",
                                            !.clusterIPs = <<"10.0.0.6">>]>>
                        [] OTHER -> <<>>]
    /\ svcCache = svcStore
    /\ svcDirty = {}
    /\ LET nameInfo == findDesiredTLSCertificateName(spec).info
       IN  /\ secStore = [n \in SecNames |->
                             CASE n = SIGNER -> <<[valid |-> TRUE]>>
                               [] n = CA -> <<[id |-> 1, valid |-> TRUE]>>
                               [] n = TLS ->
                                      <<IssueServerCert(
                                            1,
                                            IF nameInfo.selectedHostname # ""
                                            THEN <<nameInfo.selectedHostname>> ELSE <<>>,
                                            nameInfo.selectedIPs)>>]
           /\ status = <<doSyncResult(nameInfo, spec, <<1>>, "false")>>
    /\ secCache = secStore
    /\ secDirty = {}
    /\ tlsServingCert = secStore[TLS]
    /\ signingCert = "set"
    /\ caCount = 1
    /\ last = NotAPass("init")
    /\ envSteps = 0
    /\ standby = <<>>

NextActors ==
    \/ Sync
    \/ SyncServicesCache
    \/ SyncSecretsCache
    \/ EditSpec
    \/ OtherActorWritesTLSSecret
    \/ OtherActorWritesCASecret
    \/ OtherActorDeletesSecret
    \/ OtherActorDeletesService
    \/ OtherActorWritesIngress

SpecActors == InitActors /\ [][NextActors]_vars

-----------------------------------------------------------------------------

(* Specification of name resolution: the proxy has been brought up for the *)
(* spec and its caches have caught up; then the load balancer is given an  *)
(* ingress list, or the cluster-internal service its addresses, or a       *)
(* service is deleted                                                      *)

\* address assignments and service deletions in one behaviour of the
\* name-resolution specification
MaxAssign == 1

\* external endpoints: none, an IP address or a DNS name, each without a port,
\* with the default port and with another port
Endpoints ==
    {<<>>}
    \cup {<<h>> : h \in {"198.51.100.9", "new.example.com"}}
    \cup {<<h, ":", p>> : h \in {"198.51.100.9", "new.example.com"}, p \in ValidPorts}

NameSpecs ==
    {s \in {ImpersonationProxySpec("enabled", t, e, EmptyAnn) :
                t \in ServiceTypes, e \in Endpoints} :
        validateCredentialIssuerSpec(s) = ""}

\* what one ingress entry may carry: nothing, a hostname, an IP address, text
\* that is no IP address, or a hostname and an IP address
IngressEntries ==
    {Ingress("", ""), Ingress("new.example.com", ""), Ingress("", "10.0.0.5"),
     Ingress("", "not-an-ip"), Ingress("old.example.com", "10.0.0.6")}

IngressLists ==
    {<<>>}
    \cup {<<e>> : e \in IngressEntries}
    \cup {<<e1, e2>> : e1, e2 \in IngressEntries}
    \cup {<<Ingress("", "not-an-ip"), Ingress("", "10.0.0.5"), Ingress("new.example.com", "")>>}

\* the addresses the cluster gives a cluster-internal service: clusterIP is the
\* first of clusterIPs whenever clusterIPs is set
ClusterIPAssignments ==
    {[clusterIP |-> "10.0.0.5", clusterIPs |-> <<>>],
     [clusterIP |-> "10.0.0.6", clusterIPs |-> <<"10.0.0.6">>],
     [clusterIP |-> "10.0.0.5", clusterIPs |-> <<"10.0.0.5", "10.0.0.6">>],
     [clusterIP |-> "10.0.0.6", clusterIPs |-> <<"10.0.0.6", "::ffff:10.0.0.5">>]}

Assign ==
    /\ envSteps < MaxAssign
    /\ envSteps' = envSteps + 1
    /\ last' = NotAPass("env")

StoreService(name, obj) ==
    /\ Assign
    /\ svcStore[name] # obj
    /\ svcStore' = [svcStore EXCEPT ![name] = obj]
    /\ svcDirty' = svcDirty \cup {name}
    /\ UNCHANGED <<credIssuerFound, spec, hasControlPlaneNodes, serverStopCh, errorCh,
                   liveTasks, tlsServingCert, signingCert, svcCache, secStore, secCache,
                   secDirty, caCount, status, standby>>

AssignIngressList ==
    /\ svcStore[LB] # <<>>
    /\ \E ing \in IngressLists :
           StoreService(LB, <<[svcStore[LB][1] EXCEPT !.ingress = ing]>>)

AssignClusterIPs ==
    /\ svcStore[CIP] # <<>>
    /\ \E a \in ClusterIPAssignments :
           StoreService(CIP, <<[svcStore[CIP][1] EXCEPT !.clusterIP = a.clusterIP,
                                                        !.clusterIPs = a.clusterIPs]>>)

DeleteService ==
    /\ svcStore # NoServices
    /\ \E name \in SvcNames : StoreService(name, <<>>)

\* the first passes are over: the task runs, the spec's service exists as
\* created, without an address, and a TLS secret exists when the spec names an
\* external endpoint
InitNames ==
    /\ credIssuerFound = TRUE
    /\ spec \in NameSpecs
    /\ hasControlPlaneNodes = "false"
    /\ serverStopCh = "open"
    /\ errorCh = "empty"
    /\ liveTasks = 1
    /\ svcStore = [n \in SvcNames |->
                      CASE n = LB /\ spec.svcType = "LoadBalancer" ->
                               <<Service("LoadBalancer", "", EmptyAnn)>>
                        [] n = CIP /\ spec.svcType = "ClusterIP" ->
                               <<Service("ClusterIP", "", EmptyAnn)>>
                        [] OTHER -> <<>>]
    /\ svcCache = svcStore
    /\ svcDirty = {}
    /\ LET nameInfo == findDesiredTLSCertificateName(spec).info
       IN  /\ secStore = [n \in SecNames |->
                             CASE n = SIGNER -> <<[valid |-> TRUE]>>
                               [] n = CA -> <<[id |-> 1, valid |-> TRUE]>>
                               [] n = TLS ->
                                      IF nameInfo.ready
                                      THEN <<IssueServerCert(
                                                 1,
                                                 IF nameInfo.selectedHostname # ""
                                                 THEN <<nameInfo.selectedHostname>>
                                                 ELSE <<>>,
                                                 nameInfo.selectedIPs)>>
                                      ELSE <<>>]
           /\ status = <<doSyncResult(nameInfo, spec, <<1>>, "false")>>
           /\ signingCert = IF nameInfo.ready THEN "set" ELSE "unset"
    /\ secCache = secStore
    /\ secDirty = {}
    /\ tlsServingCert = secStore[TLS]
    /\ caCount = 1
    /\ last = NotAPass("init")
    /\ envSteps = 0
    /\ standby = <<>>

NextNames ==
    \/ Sync
    \/ SyncServicesCache
    \/ SyncSecretsCache
    \/ AssignIngressList
    \/ AssignClusterIPs
    \/ DeleteService

SpecNames == InitNames /\ [][NextNames]_vars

-----------------------------------------------------------------------------
(* Specification of spec validation: the controller starts on an empty      *)
(* cluster with a CredentialIssuer whose spec takes any combination of      *)
(* known, unknown, empty and malformed field values                         *)

\* what an author may write into externalEndpoint and loadBalancerIP
WrittenEndpoints ==
    {<<>>, IPEndpoint, HostEndpoint, <<"new.example.com", ":", "99999">>, <<"not a host">>}

WrittenLoadBalancerIPs == {"", "10.0.0.5", "::ffff:10.0.0.5", "not-an-ip"}

WrittenSpecs ==
    {[ImpersonationProxySpec(m, t, e, EmptyAnn) EXCEPT !.lbIP = ip] :
        m \in Modes \cup {"sometimes", ""},
        t \in ServiceTypes \cup {"NodePort", ""},
        e \in WrittenEndpoints,
        ip \in WrittenLoadBalancerIPs}

InitValidation ==
    /\ credIssuerFound = TRUE
    /\ spec \in WrittenSpecs
    /\ hasControlPlaneNodes = "nil"
    /\ serverStopCh = "nil"
    /\ errorCh = "nil"
    /\ liveTasks = 0
    /\ tlsServingCert = <<>>
    /\ signingCert = "unset"
    /\ svcStore = NoServices
    /\ svcCache = NoServices
    /\ svcDirty = {}
    /\ secStore = [n \in SecNames |-> IF n = SIGNER THEN <<[valid |-> TRUE]>> ELSE <<>>]
    /\ secCache = secStore
    /\ secDirty = {}
    /\ caCount = 0
    /\ status = <<>>
    /\ last = NotAPass("init")
    /\ envSteps = 0
    /\ standby = <<>>

NextValidation ==
    \/ Sync
    \/ TaskExit
    \/ SyncServicesCache
    \/ SyncSecretsCache

SpecValidation == InitValidation /\ [][NextValidation]_vars

-----------------------------------------------------------------------------
(* Specification of certificate name matching: the proxy runs behind a      *)
(* cluster-internal service, with or without an external hostname, and the  *)
(* TLS secret holds a certificate of the current authority for some list of  *)
(* addresses and DNS names; then the service's addresses may change          *)

\* certificates of authority 1 that the controller issued for an earlier name
\* or that somebody else stored
StoredCerts ==
    {IssueServerCert(1, dns, ips) :
        ips \in {<<>>, <<5>>, <<6>>, <<5, 6>>, <<6, 5>>, <<5, 6, 9>>},
        dns \in {<<>>, <<"new.example.com">>, <<"old.example.com">>,
                 <<"new.example.com", "old.example.com">>}}

InitCerts ==
    /\ credIssuerFound = TRUE
    /\ spec \in {ImpersonationProxySpec("enabled", "ClusterIP", e, EmptyAnn) :
                    e \in {<<>>, HostEndpoint}}
    /\ hasControlPlaneNodes = "false"
    /\ serverStopCh = "open"
    /\ errorCh = "empty"
    /\ liveTasks = 1
    /\ \E a \in ClusterIPAssignments :
           svcStore = [n \in SvcNames |->
                          IF n = CIP
                          THEN <<[Service("ClusterIP", "", EmptyAnn)
                                     EXCEPT !.clusterIP = a.clusterIP,
                                            !.clusterIPs = a.clusterIPs]>>
                          ELSE <<>>]
    /\ svcCache = svcStore
    /\ svcDirty = {}
    /\ \E cert \in StoredCerts :
           secStore = [n \in SecNames |->
                          CASE n = SIGNER -> <<[valid |-> TRUE]>>
                            [] n = CA -> <<[id |-> 1, valid |-> TRUE]>>
                            [] n = TLS -> <<cert>>]
    /\ secCache = secStore
    /\ secDirty = {}
    /\ tlsServingCert = secStore[TLS]
    /\ signingCert = "set"
    /\ caCount = 1
    /\ status = <<>>
    /\ last = NotAPass("init")
    /\ envSteps = 0
    /\ standby = <<>>

NextCerts ==
    \/ Sync
    \/ SyncServicesCache
    \/ SyncSecretsCache
    \/ AssignClusterIPs

SpecCerts == InitCerts /\ [][NextCerts]_vars

-----------------------------------------------------------------------------
(* Specification of two replicas: two controllers, each with its own fields, *)
(* proxy task and informer caches, work on one cluster for one               *)
(* CredentialIssuer.  The variables of the controller describe the replica   *)
(* whose turn it is, standby holds the other one; the store, the spec and    *)
(* the published status are shared.  Nobody else writes services or secrets. *)

\* the fields and informer caches of the replica whose turn it is
ThisReplica ==
    [hasControlPlaneNodes |-> hasControlPlaneNodes,
     serverStopCh |-> serverStopCh,
     errorCh |-> errorCh,
     liveTasks |-> liveTasks,
     tlsServingCert |-> tlsServingCert,
     signingCert |-> signingCert,
     svcCache |-> svcCache,
     svcDirty |-> svcDirty,
     secCache |-> secCache,
     secDirty |-> secDirty]

\* the turn passes to the other replica, whose caches are as it left them
SwitchReplica ==
    /\ standby # <<>>
    /\ LET other == standby[1]
       IN  /\ hasControlPlaneNodes' = other.hasControlPlaneNodes
           /\ serverStopCh' = other.serverStopCh
           /\ errorCh' = other.errorCh
           /\ liveTasks' = other.liveTasks
           /\ tlsServingCert' = other.tlsServingCert
           /\ signingCert' = other.signingCert
           /\ svcCache' = other.svcCache
           /\ svcDirty' = other.svcDirty
           /\ secCache' = other.secCache
           /\ secDirty' = other.secDirty
    /\ standby' = <<ThisReplica>>
    /\ last' = NotAPass("SwitchReplica")
    /\ UNCHANGED <<credIssuerFound, spec, svcStore, secStore, caCount, status, envSteps>>

InitReplicas ==
    /\ credIssuerFound = TRUE
    /\ spec \in {ImpersonationProxySpec("enabled", "LoadBalancer", e, EmptyAnn) :
                    e \in {<<>>, HostEndpoint}}
    /\ hasControlPlaneNodes = "false"
    /\ serverStopCh = "nil"
    /\ errorCh = "nil"
    /\ liveTasks = 0
    /\ tlsServingCert = <<>>
    /\ signingCert = "unset"
    /\ svcStore = NoServices
    /\ svcCache = NoServices
    /\ svcDirty = {}
    /\ secStore = [n \in SecNames |-> IF n = SIGNER THEN <<[valid |-> TRUE]>> ELSE <<>>]
    /\ secCache = secStore
    /\ secDirty = {}
    /\ caCount = 0
    /\ status = <<>>
    /\ last = NotAPass("init")
    /\ envSteps = 0
    /\ standby = <<ThisReplica>>

NextReplicas ==
    \/ Sync
    \/ SwitchReplica
    \/ SyncServicesCache
    \/ SyncSecretsCache
    \/ ChangeSpec

SpecReplicas == InitReplicas /\ [][NextReplicas]_vars

-----------------------------------------------------------------------------
(* Specification of convergence: a fresh controller with a spec that stays  *)
(* as it is and asks for the proxy; the cloud provider or the cluster may    *)
(* assign an address and the proxy task may return at any time.  The work    *)
(* queue keeps running passes and the informers keep catching up.            *)

InitLive ==
    /\ credIssuerFound = TRUE
    /\ spec \in {ImpersonationProxySpec("enabled", t, e, EmptyAnn) :
                    t \in ServiceTypes, e \in {<<>>, HostEndpoint}}
    /\ loadImpersonationProxyConfiguration(spec).err = ""
    /\ hasControlPlaneNodes = "nil"
    /\ serverStopCh = "nil"
    /\ errorCh = "nil"
    /\ liveTasks = 0
    /\ tlsServingCert = <<>>
    /\ signingCert = "unset"
    /\ svcStore = NoServices
    /\ svcCache = NoServices
    /\ svcDirty = {}
    /\ secStore = [n \in SecNames |-> IF n = SIGNER THEN <<[valid |-> TRUE]>> ELSE <<>>]
    /\ secCache = secStore
    /\ secDirty = {}
    /\ caCount = 0
    /\ status = <<>>
    /\ last = NotAPass("init")
    /\ envSteps = 0
    /\ standby = <<>>

NextLive ==
    \/ Sync
    \/ TaskExit
    \/ SyncServicesCache
    \/ SyncSecretsCache
    \/ AssignIngress
    \/ AssignClusterIP

\* the last pass returned an error that no pass can repair: the node listing
\* failed, or the proxy server could not be constructed
FailedOutsideTheController ==
    /\ last.op = "Sync"
    /\ last.err \in {"topology", "factory"}

\* a failed pass is queued again and every change of a watched object queues
\* one, so a pass that has something to do is run; a pass that is run again and
\* fails as before is a step that changes nothing.  The informers deliver what
\* the API server holds.
SpecLive ==
    /\ InitLive
    /\ [][NextLive]_vars
    /\ (WF_vars(Sync) \/ []<>FailedOutsideTheController)
    /\ WF_vars(SyncServicesCache)
    /\ WF_vars(SyncSecretsCache)

-----------------------------------------------------------------------------

(* Properties                                                              *)

AfterPass == last.op = "Sync"

Issued(verb, name) == \E i \in 1..Len(last.calls) :
                          last.calls[i].verb = verb /\ last.calls[i].name = name

Succeeded(verb, name) == \E i \in 1..Len(last.calls) :
                             /\ last.calls[i].verb = verb
                             /\ last.calls[i].name = name
                             /\ last.calls[i].res = "ok"

EverythingRemoved ==
    svcStore[LB] = <<>> /\ svcStore[CIP] = <<>> /\ secStore[TLS] = <<>>

\* C1 as stated: after a sync pass with mode=disabled the proxy process is
\* Stopped, neither exposure service exists and the TLS secret does not exist,
\* whatever the pass found (process running, stopped or crashed, services and
\* TLS secret present or absent).
C1_DisabledLeavesNothing ==
    (AfterPass /\ spec.mode = "disabled") =>
        (serverStopCh = "nil" /\ errorCh = "nil" /\ EverythingRemoved)

\* C1 amended: after a sync pass with mode=disabled the proxy process is
\* Stopped; and when the pass returned no error and its informer caches were up
\* to date with the stored services and secrets when it started, neither
\* exposure service exists and the TLS secret does not exist.
C1_DisabledStopsAndCleanPassRemoves ==
    (AfterPass /\ spec.mode = "disabled") =>
        /\ serverStopCh = "nil" /\ errorCh = "nil"
        /\ (last.err = "" /\ last.fresh) => EverythingRemoved

\* a clean mode=disabled pass that found the process running and removed a
\* load balancer and the TLS secret
C1_Witness ==
    /\ AfterPass /\ spec.mode = "disabled" /\ last.err = "" /\ last.fresh
    /\ last.wasRunning
    /\ Succeeded("delete", LB) /\ Succeeded("delete", TLS)
    /\ serverStopCh = "nil" /\ EverythingRemoved

\* the spec is valid, enabled, of service type LoadBalancer (set or defaulted),
\* and the load balancer the pass read from its cache has no ingress
LoadBalancerAwaitsIngress ==
    /\ AfterPass
    /\ loadImpersonationProxyConfiguration(spec).err = ""
    /\ spec.mode = "enabled"
    /\ loadImpersonationProxyConfiguration(spec).config.svcType = "LoadBalancer"
    /\ svcCache[LB] # <<>>
    /\ svcCache[LB][1].ingress = <<>>

Published(st, reason) ==
    status # <<>> /\ status[1].status = st /\ status[1].reason = reason

\* C2 as stated: for every valid spec with mode=enabled and service type
\* LoadBalancer, when the load balancer exists without an ingress address the
\* sync pass publishes an error status with reason Pending and issues no create
\* of the TLS secret.
C2_NoIngressMeansPending ==
    LoadBalancerAwaitsIngress =>
        (Published("Error", "Pending") /\ ~Issued("create", TLS))

\* C2 amended: for every valid spec with mode=enabled, service type
\* LoadBalancer and no externalEndpoint, when the load balancer exists without
\* an ingress address the sync pass issues no create of the TLS secret, does
\* not fail in name resolution, and publishes an error status whose reason is
\* Pending whenever the pass returns no error.
C2_NoIngressNoEndpointMeansPending ==
    (LoadBalancerAwaitsIngress /\ spec.endpoint = <<>>) =>
        /\ ~Issued("create", TLS)
        /\ last.err # "resolve"
        /\ status # <<>> /\ status[1].status = "Error"
        /\ last.err = "" => Published("Error", "Pending")

\* a pass that found the load balancer without ingress, returned no error and
\* published Pending, the TLS secret still absent
C2_Witness ==
    /\ LoadBalancerAwaitsIngress /\ spec.endpoint = <<>>
    /\ last.err = ""
    /\ last.ca # <<>>
    /\ Published("Error", "Pending")
    /\ secStore[TLS] = <<>>

\* C3 as stated: if a sync pass completes and no external actor changes any
\* resource or the spec and the process does not exit, then an immediately
\* following second sync pass issues zero create, update and delete calls on
\* services and secrets.
C3_SecondPassIssuesNothing ==
    (AfterPass /\ last.afterPass) => last.calls = <<>>

\* C3 amended: if a sync pass that started with its informer caches up to date
\* returns no error, and afterwards nothing happens but the informers catching
\* up with what the pass wrote, then a following sync pass issues zero create,
\* update and delete calls on services and secrets.
C3_RepeatedPassIssuesNothing ==
    (AfterPass /\ last.repeats) => last.calls = <<>>

\* a repeated pass over a running proxy, a load balancer, a CA secret and a TLS
\* secret, all of them left alone
C3_Witness ==
    /\ AfterPass /\ last.repeats /\ last.err = ""
    /\ last.calls = <<>>
    /\ serverStopCh = "open"
    /\ svcStore[LB] # <<>> /\ secStore[CA] # <<>> /\ secStore[TLS] # <<>>
    /\ Published("Success", "Listening")

\* the TLS secret that createNewTLSSecret stores for authority ca and name info
CreatedFor(ca, info) ==
    createNewTLSSecret([PassStart EXCEPT !.secStore[TLS] = <<>>], ca,
                       info.selectedIPs, info.selectedHostname).secStore[TLS]

\* the pass got as far as reconciling the TLS secret, with a name to issue for
ReconciledTLS == AfterPass /\ last.ca # <<>> /\ last.nameInfo.ready

\* C4: a TLS secret that the controller created for a resolved name (a single
\* IP, an IP list or a hostname) passes all validation checks in a later sync
\* pass that works with the same CA and resolves the same name: the pass
\* neither deletes nor recreates it, and loads it into the serving-certificate
\* provider.
C4_CreatedSecretValidates ==
    (ReconciledTLS /\ secCache[TLS] = CreatedFor(last.ca[1], last.nameInfo)) =>
        /\ ~Issued("delete", TLS)
        /\ ~Issued("create", TLS)
        /\ tlsServingCert = secCache[TLS]

\* a pass that found the secret it had created for a list of two addresses,
\* kept it and serves with it
C4_Witness ==
    /\ ReconciledTLS /\ secCache[TLS] = CreatedFor(last.ca[1], last.nameInfo)
    /\ Len(last.nameInfo.selectedIPs) = 2
    /\ last.calls = <<>>
    /\ tlsServingCert = secCache[TLS]
    /\ Published("Success", "Listening")

IssuedInOrder(verb1, verb2, name) ==
    \E i, j \in 1..Len(last.calls) :
        /\ i < j
        /\ last.calls[i].verb = verb1 /\ last.calls[i].name = name
        /\ last.calls[j].verb = verb2 /\ last.calls[j].name = name
        /\ last.calls[j].res = "ok"

\* the cached TLS secret is well-formed and signed by the authority in use, but
\* covers other names than the ones resolved
CachedCertificateDrifted ==
    /\ ReconciledTLS
    /\ secCache[TLS] # <<>>
    /\ X509KeyPair(secCache[TLS][1])
    /\ secCache[TLS][1].issuer = last.ca[1]
    /\ secCache[TLS] # CreatedFor(last.ca[1], last.nameInfo)

\* C5: when an existing, otherwise valid TLS secret covers a name different
\* from the name the resolver now reports as ready, the same sync pass deletes
\* that secret and then creates a new secret covering exactly the newly
\* resolved name, without waiting for the cache to reflect the deletion.
C5_DriftDeletesThenCreates ==
    CachedCertificateDrifted =>
        /\ IssuedInOrder("delete", "create", TLS)
        /\ secStore[TLS] = CreatedFor(last.ca[1], last.nameInfo)
        /\ tlsServingCert = secStore[TLS]
        /\ secCache[TLS] # secStore[TLS]

\* a pass that found a certificate for an IP address while the name is now
\* new.example.com, deleted it and stored one for new.example.com
C5_Witness ==
    /\ CachedCertificateDrifted
    /\ secCache[TLS][1].dns = <<>>
    /\ last.nameInfo.selectedHostname = "new.example.com"
    /\ Succeeded("delete", TLS) /\ Succeeded("create", TLS)
    /\ secStore[TLS][1].dns = <<"new.example.com">> /\ secStore[TLS][1].ips = <<>>
    /\ last.err = ""

NonBookkeeping(ann) == Without(ann, {annotationKeysKey})

\* the key list that the bookkeeping annotation of ann records
BookkeepingList(ann) ==
    IF annotationKeysKey \in DOMAIN ann THEN jsonUnmarshal(ann[annotationKeysKey]) ELSE <<>>

\* list holds exactly the keys of D, each once, in ascending order
IsSortedKeyList(list, D) ==
    /\ Range(list) = DOMAIN D
    /\ Len(list) = Cardinality(DOMAIN D)
    /\ \A i, j \in 1..Len(list) : i < j => Rank(list[i]) < Rank(list[j])

\* (E overlaid with D) minus every key that is in P and not in D
OverlaidAndPruned(E, P, D) ==
    [k \in (DOMAIN E \cup DOMAIN D) \ {p \in Range(P) : p \notin DOMAIN D} |->
        IF k \in DOMAIN D THEN D[k] ELSE E[k]]

\* C6: when a sync pass updates an existing exposure service that has
\* annotations E and bookkeeping list P, for a desired annotation set D, the
\* updated service's non-bookkeeping annotations equal (E overlaid with D)
\* minus every key that is in P and not in D, and its bookkeeping list is the
\* sorted key set of D (no bookkeeping annotation at all when D is empty); so
\* E={a:1,b:2}, P=[a,b], D={b:2,c:3} gives {b:2,c:3} with bookkeeping [b,c].
C6_AnnotationMerge ==
    \A name \in SvcNames :
        (AfterPass /\ Succeeded("update", name)) =>
            LET existing == svcCache[name][1].ann
                D == spec.ann
                updated == svcStore[name][1].ann
            IN  /\ NonBookkeeping(updated)
                       = OverlaidAndPruned(NonBookkeeping(existing),
                                           BookkeepingList(existing), D)
                /\ IsSortedKeyList(BookkeepingList(updated), D)
                /\ (annotationKeysKey \in DOMAIN updated) = (DOMAIN D # {})

\* the load balancer with {a:1, b:2} and bookkeeping [a,b] has been updated for
\* the desired set {b:2, c:3}: it now has {b:2, c:3} and bookkeeping [b,c]
C6_Witness ==
    /\ AfterPass /\ Succeeded("update", LB)
    /\ svcCache[LB][1].ann = ("a" :> <<"1">>) @@ ("b" :> <<"2">>)
                             @@ (annotationKeysKey :> <<"[", "a", "b", "]">>)
    /\ spec.ann = ("b" :> <<"2">>) @@ ("c" :> <<"3">>)
    /\ svcStore[LB][1].ann = ("b" :> <<"2">>) @@ ("c" :> <<"3">>)
                             @@ (annotationKeysKey :> <<"[", "b", "c", "]">>)

\* key is on the service, is not the bookkeeping key, is not in the desired
\* annotation set and is not in the bookkeeping list recorded on the service
ThirdPartyKey(service, key) ==
    /\ key \in DOMAIN service.ann
    /\ key # annotationKeysKey
    /\ key \notin DOMAIN spec.ann
    /\ key \notin Range(BookkeepingList(service.ann))

\* C7: a sync pass never removes or changes an annotation of an exposure
\* service whose key is not in the current desired annotation set and not in
\* the bookkeeping list recorded on the service, for as long as the service
\* itself is kept, whatever passes, spec changes and edits by others came
\* before.
C7_ThirdPartyAnnotationsKept ==
    [][\A name \in SvcNames : \A key \in DOMAIN AnnotationValue :
           (/\ last'.op = "Sync"
            /\ svcStore[name] # <<>>
            /\ ThirdPartyKey(svcStore[name][1], key)
            /\ svcStore'[name] # <<>>)
           => /\ key \in DOMAIN svcStore'[name][1].ann
              /\ svcStore'[name][1].ann[key] = svcStore[name][1].ann[key]]_vars

\* a pass has updated the load balancer's annotations for a changed spec and
\* somebody else's b:x is still on it
C7_Witness ==
    /\ AfterPass /\ Succeeded("update", LB)
    /\ ThirdPartyKey(svcCache[LB][1], "b")
    /\ svcCache[LB][1].ann["b"] = <<"x">>
    /\ NonBookkeeping(svcCache[LB][1].ann) # NonBookkeeping(svcStore[LB][1].ann)
    /\ ThirdPartyKey(svcStore[LB][1], "b")
    /\ svcStore[LB][1].ann["b"] = <<"x">>

Running == serverStopCh = "open" /\ errorCh = "empty"

Stopped == serverStopCh = "nil" /\ errorCh = "nil"

C9_DesiredStateComposition ==
    (AfterPass /\ last.resolved) =>
        LET serviceType == IF spec.svcType = "" THEN "LoadBalancer" ELSE spec.svcType
            wanted == \/ spec.mode = "enabled"
                      \/ (spec.mode = "auto" /\ hasControlPlaneNodes # "true")
        IN  /\ last.should.impersonator = wanted
            /\ last.should.loadBalancer = (wanted /\ serviceType = "LoadBalancer")
            /\ last.should.clusterIP = (wanted /\ serviceType = "ClusterIP")
            /\ last.should.tlsSecret = wanted
            /\ ~(last.should.loadBalancer /\ last.should.clusterIP)

\* a pass in auto mode on a cluster without control plane nodes, with service
\* type ClusterIP: proxy, cluster-internal service and TLS secret wanted, load
\* balancer not
C9_Witness ==
    /\ AfterPass /\ last.resolved
    /\ spec.mode = "auto" /\ hasControlPlaneNodes = "false" /\ spec.svcType = "ClusterIP"
    /\ last.should = [impersonator |-> TRUE, loadBalancer |-> FALSE, clusterIP |-> TRUE,
                      tlsSecret |-> TRUE]
    /\ svcStore[CIP] # <<>> /\ svcStore[LB] = <<>>

\* the pass returned the strategy that doSyncResult composed
Composed == AfterPass /\ last.err = "" /\ status # <<>>

FrontendOf(info, ca) ==
    <<[endpoint |-> <<"https://">> \o info.clientEndpoint, caData |-> base64Encode(ca)]>>

StatusByPriority(autoDisabledReasons) ==
    LET st == status[1]
    IN  IF spec.mode = "disabled"
        THEN st.status = "Error" /\ st.reason = "Disabled" /\ st.frontend = <<>>
        ELSE IF spec.mode = "auto" /\ hasControlPlaneNodes = "true"
        THEN st.status = "Error" /\ st.reason \in autoDisabledReasons /\ st.frontend = <<>>
        ELSE IF ~last.nameInfo.ready
        THEN st.status = "Error" /\ st.reason = "Pending" /\ st.frontend = <<>>
        ELSE /\ st.status = "Success" /\ st.reason = "Listening"
             /\ st.frontend = FrontendOf(last.nameInfo, last.ca[1])

StrategyReasons == {"Disabled", "Pending", "Listening", "ErrorDuringSetup"}

FrontendOnlyOnSuccess ==
    (AfterPass /\ status # <<>> /\ status[1].frontend # <<>>) => status[1].status = "Success"

\* C10 as stated: explicitly disabled gives error status with the reason for
\* explicit disabling; disabled by auto mode gives error status with a reason
\* distinct from that one; otherwise name not ready gives error status with
\* reason Pending; otherwise success status with reason Listening carrying the
\* endpoint as an https URL and the CA bundle.  Endpoint and CA bundle are
\* present only in the success case.
C10_StatusByPriorityDistinctReasons ==
    /\ Composed => StatusByPriority(StrategyReasons \ {"Disabled"})
    /\ FrontendOnlyOnSuccess

\* C10 amended: explicitly disabled gives error status with reason Disabled;
\* disabled by auto mode gives error status with the same reason Disabled (the
\* two differ in their message only); otherwise name not ready gives error
\* status with reason Pending; otherwise success status with reason Listening
\* carrying the endpoint as an https URL and the CA bundle.  Endpoint and CA
\* bundle are present only in the success case.
C10_StatusByPriority ==
    /\ Composed => StatusByPriority({"Disabled"})
    /\ FrontendOnlyOnSuccess

\* a pass in auto mode on a cluster with control plane nodes published reason
\* Disabled with the message of automatic disabling, and no frontend
C10_Witness ==
    /\ Composed
    /\ spec.mode = "auto" /\ hasControlPlaneNodes = "true"
    /\ Published("Error", "Disabled")
    /\ status[1].message =
           "automatically determined that impersonation proxy should be disabled"
    /\ status[1].frontend = <<>>

\* C11: at the end of every sync pass that got as far as doSync, the signing
\* certificate provider holds a certificate only if the status published by
\* that pass is Success; a pass whose status is Error (disabled, pending,
\* validation error or a failed step) leaves the provider cleared.
C11_SigningCredentialGating ==
    AfterPass =>
        /\ signingCert = "set" => Published("Success", "Listening")
        /\ (status # <<>> /\ status[1].status = "Error") => signingCert = "unset"

\* a pass that found a signing certificate loaded and no signer secret ended
\* with an error and the provider cleared
C11_Witness ==
    /\ AfterPass /\ last.signerWasSet
    /\ last.err = "signer-not-found"
    /\ Published("Error", "ErrorDuringSetup")
    /\ signingCert = "unset"

\* the calls of the pass with one of the verbs and one of the results
ProcessCalls(verbs, results) ==
    {i \in 1..Len(last.calls) :
        last.calls[i].verb \in verbs /\ last.calls[i].res \in results}

\* C12: in every reachable state, over any sequence of sync passes, mode
\* changes and proxy exits, at most one background proxy task launched by the
\* controller is alive, and the controller's stop channel and error channel
\* are nil together or non-nil together.
C12_SingleProcessInstance ==
    /\ liveTasks \in {0, 1}
    /\ (serverStopCh = "nil") = (errorCh = "nil")
    /\ liveTasks = 1 => Running

\* after a task died and its handles were given up, a pass has launched a new
\* task, the only one alive
C12_Witness ==
    /\ AfterPass /\ last.afterCrash /\ ~last.wasRunning
    /\ liveTasks = 1
    /\ Running

\* the pass made a create or update call that another writer had raced
RacedCalls == ProcessCalls({"create", "update"}, {"AlreadyExists", "Conflict"})

\* C13: when a create or update call made during a sync pass fails with
\* AlreadyExists or Conflict, the pass publishes an Error status whose reason
\* is Pending and returns an error; every other failure is published with the
\* reason ErrorDuringSetup.
C13_RaceIsPending ==
    AfterPass =>
        /\ RacedCalls # {} => (last.err # "" /\ Published("Error", "Pending"))
        /\ (last.err # "" /\ RacedCalls = {}) => Published("Error", "ErrorDuringSetup")

\* a pass created a service that the API server already had, and published
\* Pending
C13_Witness ==
    /\ AfterPass
    /\ \E i \in RacedCalls : last.calls[i].name \in SvcNames
    /\ last.err = "AlreadyExists"
    /\ Published("Error", "Pending")

AfterAnyPass == last.op \in {"Sync", "SyncNoIssuer"}

\* a reconciliation step of the pass failed: an API call was refused, or the
\* pass wanted the proxy and found its task dead
StepFailed ==
    \/ ProcessCalls({"create", "update"}, {"AlreadyExists", "Conflict", "NotFound"}) # {}
    \/ last.crashed /\ last.should.impersonator

PublishedTheFailure ==
    /\ status # <<>>
    /\ status[1].status = "Error"
    /\ status[1].message = last.err
    /\ status[1].frontend = <<>>

\* C14 as stated: every sync pass publishes exactly one status, and whenever a
\* reconciliation step of the pass fails, the published status is an Error
\* status carrying the failure message and the pass returns an error.
C14_EveryPassPublishesOnce ==
    AfterAnyPass =>
        /\ last.published = 1
        /\ StepFailed => last.err # ""
        /\ last.err # "" => PublishedTheFailure

\* C14 amended: every sync pass that finds the CredentialIssuer publishes
\* exactly one status, and whenever a reconciliation step of such a pass fails,
\* the published status is an Error status carrying the failure message and
\* the pass returns an error; a pass that does not find the CredentialIssuer
\* publishes no status and returns an error.
C14_PassWithIssuerPublishesOnce ==
    /\ AfterPass =>
           /\ last.published = 1
           /\ StepFailed => last.err # ""
           /\ last.err # "" => PublishedTheFailure
    /\ last.op = "SyncNoIssuer" => (last.published = 0 /\ last.err # "")

\* a pass found its proxy task dead and published the error it returned
C14_Witness ==
    /\ AfterPass
    /\ last.crashed /\ last.should.impersonator
    /\ last.err = "crash"
    /\ last.published = 1
    /\ Published("Error", "ErrorDuringSetup")
    /\ status[1].message = "crash"

\* the pass wanted a TLS secret, got as far as ensureTLSSecret and found a TLS
\* secret in its cache
ValidatedTLS ==
    AfterPass /\ last.should.tlsSecret /\ last.ca # <<>> /\ secCache[TLS] # <<>>

\* the first of the six conditions that the secret fails, or "none"
FirstFailure(secret, ca, info) ==
    IF ~secret.pemOK THEN "pem"
    ELSE IF ~secret.certOK THEN "parse"
    ELSE IF ~secret.keyOK THEN "keypair"
    ELSE IF secret.issuer # ca THEN "ca"
    ELSE IF ~info.ready THEN "ready"
    ELSE IF ~(/\ secret.ips = info.selectedIPs
              /\ secret.dns = IF info.selectedHostname = "" THEN <<>>
                               ELSE <<info.selectedHostname>>)
    THEN "names"
    ELSE "none"

\* C19: when shouldHaveTLSSecret holds and a TLS secret exists, the pass
\* issues a delete of it if and only if at least one of these fails, checked in
\* this order: certificate PEM decodes, bytes parse as a certificate,
\* certificate and key form a key pair, certificate chains to the current CA,
\* resolver is ready, certificate names exactly match the resolved names; when
\* all hold the secret is kept and loaded, and after a deletion the secret is
\* treated as absent for the rest of the pass (a new one is created when the
\* resolver is ready, none otherwise).
C19_ValidationChain ==
    ValidatedTLS =>
        LET failed == FirstFailure(secCache[TLS][1], last.ca[1], last.nameInfo)
        IN  /\ last.tlsCheck = failed
            /\ Issued("delete", TLS) <=> failed # "none"
            /\ failed = "none" =>
                   (~Issued("create", TLS) /\ tlsServingCert = secCache[TLS])
            /\ failed # "none" => (Issued("create", TLS) <=> last.nameInfo.ready)

\* a pass found a TLS secret whose private key is of another certificate and
\* whose certificate is of an unknown authority, gave it up for the key, and
\* stored and loaded a new one
C19_Witness ==
    /\ ValidatedTLS
    /\ ~secCache[TLS][1].keyOK /\ secCache[TLS][1].issuer # last.ca[1]
    /\ last.tlsCheck = "keypair"
    /\ IssuedInOrder("delete", "create", TLS)
    /\ tlsServingCert = secStore[TLS]
    /\ last.err = ""

\* the pass wanted a TLS secret, found the resolver not ready and published
\* Pending
PendingPass ==
    /\ AfterPass /\ last.should.tlsSecret
    /\ last.err = "" /\ ~last.nameInfo.ready
    /\ Published("Error", "Pending")

\* C20: whenever a sync pass with shouldHaveTLSSecret ends with the resolver
\* not ready (status Pending), the TLS secret has been deleted if it existed,
\* none has been created, and the serving-certificate provider holds no
\* certificate, whatever it held before the pass (also when the secret was
\* already removed by another actor).
C20_NoCertificateWhilePending ==
    PendingPass =>
        /\ secStore[TLS] = <<>>
        /\ ~Issued("create", TLS)
        /\ tlsServingCert = <<>>

\* the pass called findDesiredTLSCertificateName for a spec with an external
\* endpoint
NamedFromEndpoint == AfterPass /\ last.named /\ spec.endpoint # <<>>

\* C15: whenever externalEndpoint is non-empty the resolver is ready whatever
\* the service type and the state of any service; an IP host yields
\* selectedIPs = [that IP] and no hostname, a DNS host yields selectedHostname
\* and no IPs, and the client endpoint is host[:port] with a trailing :443
\* removed (so 198.51.100.9:443 yields client endpoint 198.51.100.9).
C15_EndpointOverride ==
    NamedFromEndpoint =>
        LET host == spec.endpoint[1]
            port == IF Len(spec.endpoint) = 3 THEN spec.endpoint[3] ELSE "443"
            info == last.nameInfo
        IN  /\ info.ready
            /\ last.err # "resolve"
            /\ host \in DOMAIN IPTable =>
                   (info.selectedIPs = <<IPTable[host]>> /\ info.selectedHostname = "")
            /\ host \notin DOMAIN IPTable =>
                   (info.selectedHostname = host /\ info.selectedIPs = <<>>)
            /\ info.clientEndpoint = IF port = "443" THEN <<host>> ELSE <<host, ":", port>>

\* a pass for externalEndpoint 198.51.100.9:443 and service type LoadBalancer
\* read a load balancer whose only ingress entry is no IP address, and
\* resolved the endpoint's address with client endpoint 198.51.100.9
C15_Witness ==
    /\ NamedFromEndpoint
    /\ spec.endpoint = <<"198.51.100.9", ":", "443">>
    /\ spec.svcType = "LoadBalancer"
    /\ svcCache[LB] # <<>>
    /\ svcCache[LB][1].ingress = <<Ingress("", "not-an-ip")>>
    /\ last.nameInfo = NameInfo(<<9>>, "", <<"198.51.100.9">>)

\* the pass took the name from the load balancer, which it found in its cache
\* with a non-empty ingress list
NamedFromIngress ==
    /\ AfterPass /\ last.named
    /\ spec.endpoint = <<>> /\ spec.svcType = "LoadBalancer"
    /\ svcCache[LB] # <<>>
    /\ svcCache[LB][1].ingress # <<>>

Hostnames(ingresses) == SelectSeq(ingresses, LAMBDA i : i.hostname # "")

ParseableIPs(ingresses) == SelectSeq(ingresses, LAMBDA i : i.ip \in DOMAIN IPTable)

\* hostname first, else the first parseable IP
SelectsByPreference(ingresses) ==
    /\ Hostnames(ingresses) # <<>> =>
           /\ last.err # "resolve"
           /\ last.nameInfo = NameInfo(<<>>, Hostnames(ingresses)[1].hostname,
                                       <<Hostnames(ingresses)[1].hostname>>)
    /\ (Hostnames(ingresses) = <<>> /\ ParseableIPs(ingresses) # <<>>) =>
           /\ last.err # "resolve"
           /\ last.nameInfo = NameInfo(<<IPTable[ParseableIPs(ingresses)[1].ip]>>, "",
                                       <<ParseableIPs(ingresses)[1].ip>>)

CarriesNothing(ingress) == ingress.hostname = "" /\ ingress.ip = ""

\* C16 as stated: for every non-empty ingress list, if any entry carries a
\* hostname the resolver is ready and selects the first such hostname (even
\* when earlier entries carry only an IP or nothing); if no entry carries a
\* hostname but at least one carries a parseable IP, the resolver is ready and
\* selects the first such IP.
C16_HostnameThenIP ==
    NamedFromIngress => SelectsByPreference(svcCache[LB][1].ingress)

\* C16 amended: for every non-empty ingress list whose first entry carries a
\* hostname or an IP string, if any entry carries a hostname the resolver is
\* ready and selects the first such hostname (even when earlier entries carry
\* only an IP); if no entry carries a hostname but at least one carries a
\* parseable IP, the resolver is ready and selects the first such IP.  When the
\* first entry carries neither, the resolver is not ready, whatever the later
\* entries carry.
C16_HostnameThenIPUnlessFirstEmpty ==
    NamedFromIngress =>
        LET ingresses == svcCache[LB][1].ingress
        IN  IF CarriesNothing(ingresses[1])
            THEN last.err # "resolve" /\ ~last.nameInfo.ready
            ELSE SelectsByPreference(ingresses)

\* a pass read the ingress list (no IP address, 10.0.0.5, new.example.com) and
\* selected new.example.com
C16_Witness ==
    /\ NamedFromIngress
    /\ svcCache[LB][1].ingress =
           <<Ingress("", "not-an-ip"), Ingress("", "10.0.0.5"), Ingress("new.example.com", "")>>
    /\ last.nameInfo = NameInfo(<<>>, "new.example.com", <<"new.example.com">>)
    /\ last.err = ""

\* no entry of the ingress list carries a hostname or a parseable IP
Unusable(ingresses) == Hostnames(ingresses) = <<>> /\ ParseableIPs(ingresses) = <<>>

NamedFromClusterIP ==
    /\ AfterPass /\ last.named
    /\ spec.endpoint = <<>> /\ spec.svcType = "ClusterIP"

\* the internal addresses of a service
InternalAddresses(service) ==
    IF service.clusterIPs # <<>> THEN service.clusterIPs
    ELSE IF service.clusterIP # "" THEN <<service.clusterIP>>
    ELSE <<>>

\* C18: when externalEndpoint is empty and the service type is ClusterIP:
\* service not found gives not ready; service found with one or more internal
\* addresses gives ready with selectedIPs equal to all of those addresses in
\* order; service found with no internal address gives not ready.
C18_ClusterIPSelection ==
    NamedFromClusterIP =>
        /\ last.err # "resolve"
        /\ svcCache[CIP] = <<>> => ~last.nameInfo.ready
        /\ svcCache[CIP] # <<>> =>
               LET addresses == InternalAddresses(svcCache[CIP][1])
               IN  IF addresses = <<>>
                   THEN ~last.nameInfo.ready
                   ELSE /\ last.nameInfo.ready
                        /\ last.nameInfo.selectedIPs =
                               [i \in 1..Len(addresses) |-> IPTable[addresses[i]]]
                        /\ last.nameInfo.selectedHostname = ""

\* a pass read a cluster-internal service with the addresses 10.0.0.5 and
\* 10.0.0.6 and selected both, in that order
C18_Witness ==
    /\ NamedFromClusterIP
    /\ svcCache[CIP] # <<>>
    /\ svcCache[CIP][1].clusterIPs = <<"10.0.0.5", "10.0.0.6">>
    /\ last.nameInfo.ready
    /\ last.nameInfo.selectedIPs = <<5, 6>>
    /\ secStore[TLS] # <<>> /\ secStore[TLS][1].ips = <<5, 6>>

\* the calls of the pass on the resource name with one of the verbs
CallsOn(name, verbs) ==
    {i \in 1..Len(last.calls) : last.calls[i].name = name /\ last.calls[i].verb \in verbs}

\* the CA secret that the pass read does not load
CachedCAUnparseable == secCache[CA] # <<>> /\ ~secCache[CA][1].valid

ResolutionFailed == AfterPass /\ last.named /\ last.err = "resolve"

\* C22: when name resolution fails with an error, the pass leaves the
\* serving-certificate provider without a certificate, issues no create or
\* delete of the CA secret or the TLS secret, publishes an Error status with the
\* reason ErrorDuringSetup carrying the error, and returns the error.
C22_ResolutionErrorClearsCertificate ==
    ResolutionFailed =>
        /\ tlsServingCert = <<>>
        /\ CallsOn(CA, {"create", "delete"}) = {}
        /\ CallsOn(TLS, {"create", "delete"}) = {}
        /\ last.ca = <<>> /\ last.tlsCheck = ""
        /\ Published("Error", "ErrorDuringSetup")
        /\ status[1].message = "resolve"
        /\ signingCert = "unset"

\* a pass that served with a loaded certificate read an ingress list without a
\* usable entry: it failed, the provider is empty and the TLS secret is still
\* stored
C22_Witness ==
    /\ ResolutionFailed
    /\ last.certWasLoaded
    /\ svcCache[LB] # <<>> /\ svcCache[LB][1].ingress = UnusableIngress
    /\ tlsServingCert = <<>>
    /\ secStore[TLS] # <<>> /\ secStore[CA] # <<>>
    /\ Published("Error", "ErrorDuringSetup")

\* every step before loadSignerCA succeeded and doSyncResult composed Success
ComposedSuccess ==
    AfterPass /\ last.composed # <<>> /\ last.composed[1].status = "Success"

\* the signer secret that the pass read is missing or does not load
SignerUnusable == secCache[SIGNER] = <<>> \/ ~secCache[SIGNER][1].valid

\* C23: the proxy is never reported ready without the signing credential: no
\* pass that reads a missing or unparseable signer secret publishes Success;
\* when every earlier step succeeded and the composed status is Success, such
\* a pass returns the signer error, publishes an Error status without
\* frontend, and leaves the signing-certificate provider cleared.
C23_NotReadyWithoutSigner ==
    (AfterPass /\ SignerUnusable) =>
        /\ status[1].status = "Error"
        /\ signingCert = "unset"
        /\ ComposedSuccess =>
               /\ last.err = IF secCache[SIGNER] = <<>> THEN "signer-not-found"
                             ELSE "signer-load"
               /\ Published("Error", "ErrorDuringSetup")
               /\ status[1].message = last.err
               /\ status[1].frontend = <<>>

\* a pass with the proxy running, the certificate kept and loaded and Success
\* composed read a signer secret that does not load, and published an error
C23_Witness ==
    /\ ComposedSuccess /\ SignerUnusable
    /\ secCache[SIGNER] # <<>>
    /\ last.signerWasSet
    /\ last.calls = <<>>
    /\ Running /\ tlsServingCert # <<>>
    /\ last.err = "signer-load"
    /\ Published("Error", "ErrorDuringSetup")
    /\ signingCert = "unset"

\* the delete calls of the pass that found the resource already gone
DeletesOfNothing == ProcessCalls({"delete"}, {"NotFound"})

\* the error of the pass comes from a step that is no delete: the name
\* resolution, the loading of a secret, or a create or update that was refused
FailedElsewhere ==
    \/ last.err \in {"resolve", "ca-load", "tls-load", "signer-not-found", "signer-load"}
    \/ /\ last.calls # <<>>
       /\ last.calls[Len(last.calls)].verb \in {"create", "update"}
       /\ last.calls[Len(last.calls)].res = last.err

\* C24: a delete that is answered NotFound (another replica or actor removed
\* the service or the TLS secret first) is taken for success: the pass goes on
\* and does not fail because of it (if it fails, then in a step that is no
\* delete; a pass tearing down for an explicitly disabled proxy fails only
\* when its name resolution does, and publishes Disabled otherwise); a pass
\* that finds a resource absent issues no delete of it; and after a delete of
\* the TLS secret that succeeded the serving-certificate provider holds no
\* certificate, unless the same pass went on to store and load a new one.
C24_BenignDeleteRaces ==
    AfterPass =>
        /\ (DeletesOfNothing # {} /\ last.err # "") => FailedElsewhere
        /\ (DeletesOfNothing # {} /\ spec.mode = "disabled") =>
               /\ last.err \in {"", "resolve"}
               /\ last.err = "" => Published("Error", "Disabled")
        /\ \A name \in SvcNames : svcCache[name] = <<>> => CallsOn(name, {"delete"}) = {}
        /\ secCache[TLS] = <<>> => CallsOn(TLS, {"delete"}) = {}
        /\ Succeeded("delete", TLS) =>
               \/ tlsServingCert = <<>>
               \/ /\ IssuedInOrder("delete", "create", TLS)
                  /\ tlsServingCert = secStore[TLS]

\* a pass tearing down for a disabled proxy deleted a load balancer that was
\* already gone and the TLS secret, returned no error and serves no certificate
C24_Witness ==
    /\ AfterPass /\ spec.mode = "disabled"
    /\ \E i \in DeletesOfNothing : last.calls[i].name = LB
    /\ Succeeded("delete", TLS)
    /\ last.certWasLoaded
    /\ last.err = ""
    /\ tlsServingCert = <<>>
    /\ svcStore[LB] = <<>> /\ secStore[TLS] = <<>>

\* the pass wanted the proxy and found its task held and no value on errorCh
FoundHealthy ==
    /\ AfterPass /\ last.should.impersonator
    /\ last.wasRunning /\ last.errorChWas = "empty"

\* C25: when the stop channel is held and errorCh is empty,
\* ensureImpersonatorIsStarted launches no task, does not call the proxy
\* factory, closes and replaces neither channel, does not wait for the task,
\* and returns no error.
C25_StartIsNoOpWhenRunning ==
    FoundHealthy =>
        /\ last.proc = NoProc
        /\ Running
        /\ liveTasks = 1
        /\ last.err \notin {"crash", "stop", "factory"}

\* a pass over a running proxy left the task and its channels alone and
\* published Success
C25_Witness ==
    /\ FoundHealthy
    /\ last.proc.factoryCalls = 0 /\ last.proc.launched = 0
    /\ Running /\ liveTasks = 1
    /\ last.err = ""
    /\ Published("Success", "Listening")

\* the pass wanted the proxy and found a value on errorCh
FoundDead ==
    /\ AfterPass /\ last.should.impersonator
    /\ last.wasRunning /\ last.errorChWas \in {"nilErr", "err"}

\* C26: when the liveness check finds a value on errorCh, nil included,
\* ensureImpersonatorIsStarted returns an error: the aggregate of the value
\* received (for nil, "unexpected shutdown of proxy server") and of the error of
\* the forced stop, which reads the closed channel and so has none; it calls
\* no proxy factory and launches no task, and leaves the controller Stopped.
C26_CleanExitIsACrash ==
    FoundDead =>
        /\ last.err = "crash"
        /\ last.proc.aggregate =
               <<IF last.errorChWas = "nilErr" THEN "unexpected shutdown of proxy server"
                 ELSE "err">>
        /\ last.proc.factoryCalls = 0 /\ last.proc.launched = 0
        /\ Stopped /\ liveTasks = 0
        /\ Published("Error", "ErrorDuringSetup")

\* a pass found the nil error of a task that had returned without one,
\* reported an unexpected shutdown and left the proxy stopped
C26_Witness ==
    /\ FoundDead
    /\ last.errorChWas = "nilErr"
    /\ last.proc.aggregate = <<"unexpected shutdown of proxy server">>
    /\ last.proc.launched = 0
    /\ Stopped
    /\ last.err = "crash"

\* the pass gave up the channels it held when it started
DroppedChannels == AfterPass /\ last.wasRunning /\ last.proc.stopChCloses > 0

\* C27: over any interleaving of sync passes and exits of the proxy task, a
\* pass that gives up the channels it holds closes errorCh exactly once (in
\* ensureImpersonatorIsStopped, or on the crash path before the forced stop)
\* and the stop channel exactly once, and only after the task has sent; a
\* pass that keeps them closes neither, no state holds a closed errorCh, and no
\* send of the task meets a closed channel.
C27_ChannelsClosedOnce ==
    /\ errorCh # "closed"
    /\ last.proc.fault = ""
    /\ last.proc.errorChCloses = last.proc.stopChCloses
    /\ last.proc.stopChCloses \in {0, 1}
    /\ DroppedChannels => (Stopped /\ liveTasks = 0 /\ last.proc.errorChCloses = 1)
    /\ (AfterPass /\ last.wasRunning /\ ~DroppedChannels) =>
           (serverStopCh = "open" /\ errorCh = last.errorChWas)
    /\ (serverStopCh = "nil" /\ last.wasRunning) => DroppedChannels

\* a pass for a disabled proxy stopped the running task, received its result
\* and closed both channels, each once
C27_Witness ==
    /\ DroppedChannels
    /\ ~last.should.impersonator /\ last.resolved
    /\ last.errorChWas = "empty"
    /\ last.proc.exits = 1 /\ last.proc.sends = 1
    /\ last.proc.errorChCloses = 1 /\ last.proc.stopChCloses = 1
    /\ Stopped

\* how many values errorCh holds
Buffered == IF errorCh \in {"nilErr", "err"} THEN 1 ELSE 0

\* C28: every proxy task that returns sends exactly one value on errorCh, on
\* the channel the controller holds for it; the send goes through at once
\* also when no pass is receiving, errorCh never holds more than one value,
\* and the liveness check of a pass over a running task does not wait for
\* the task.
C28_SingleSlotMailbox ==
    /\ last.proc.sends = last.proc.exits
    /\ last.proc.exits \in {0, 1}
    /\ last.proc.fault = ""
    /\ Buffered <= ErrorChCapacity
    /\ last.op = "TaskExit" =>
           (last.proc.exits = 1 /\ Buffered = 1 /\ serverStopCh = "open" /\ liveTasks = 0)
    /\ FoundHealthy => (last.proc.exits = 0 /\ liveTasks = 1)

\* the task returned with no pass receiving, and its nil result waits on
\* errorCh
C28_Witness ==
    /\ last.op = "TaskExit"
    /\ last.proc.sends = 1 /\ last.proc.fault = ""
    /\ errorCh = "nilErr"
    /\ serverStopCh = "open"
    /\ liveTasks = 0

\* position of the call in the calls the goroutine made, 0 if it did not make it
CallIndex(call) ==
    IF \E i \in 1..Len(last.proc.trace) : last.proc.trace[i] = call
    THEN CHOOSE i \in 1..Len(last.proc.trace) : last.proc.trace[i] = call
    ELSE 0

\* C29: every return of the proxy task, with or without an error, on its own
\* or because a pass stopped it, makes exactly one AddRateLimited call, made
\* after the task's result was sent on errorCh; after a task returned on its
\* own the result waits on errorCh, and the pass that follows finds it.
C29_ExitEnqueuesAfterSend ==
    /\ last.proc.enqueues = last.proc.exits
    /\ last.proc.exits > 0 =>
           /\ last.proc.enqueuedAfterSend
           /\ 0 < CallIndex("send") /\ CallIndex("send") < CallIndex("AddRateLimited")
           /\ Cardinality({i \in 1..Len(last.proc.trace) :
                               last.proc.trace[i] = "AddRateLimited"}) = 1
    /\ last.op = "TaskExit" => Buffered = 1
    /\ (AfterPass /\ last.afterExit) => last.crashed

\* the task returned with an error: the error was sent, then the re-sync asked
\* for
C29_Witness ==
    /\ last.op = "TaskExit"
    /\ errorCh = "err"
    /\ last.proc.trace = <<"send", "AddRateLimited", "HandleCrash">>
    /\ last.proc.enqueues = 1

\* the pass created or updated the service
Wrote(name) == AfterPass /\ (Succeeded("create", name) \/ Succeeded("update", name))

\* C30: on every service that a pass creates or updates, the bookkeeping
\* annotation is present if and only if the desired annotation set is
\* non-empty, and when present it is the JSON array of exactly the desired
\* keys in ascending order; an update for an empty desired set removes the
\* bookkeeping annotation together with every key that the previous
\* bookkeeping list names.
C30_BookkeepingPresence ==
    \A name \in SvcNames :
        Wrote(name) =>
            LET written == svcStore[name][1].ann
                D == spec.ann
            IN  /\ (annotationKeysKey \in DOMAIN written) <=> (DOMAIN D # {})
                /\ annotationKeysKey \in DOMAIN written =>
                       /\ Head(written[annotationKeysKey]) = "["
                       /\ written[annotationKeysKey][Len(written[annotationKeysKey])] = "]"
                       /\ IsSortedKeyList(BookkeepingList(written), D)
                /\ (Succeeded("update", name) /\ DOMAIN D = {}) =>
                       \A k \in Range(BookkeepingList(svcCache[name][1].ann)) :
                           k \notin DOMAIN written

\* the load balancer with {a:1, b:2} and bookkeeping [a,b] has been updated for
\* an empty desired set: a, b and the bookkeeping annotation are gone
C30_Witness ==
    /\ Wrote(LB) /\ Succeeded("update", LB)
    /\ spec.ann = EmptyAnn
    /\ svcCache[LB][1].ann = ("a" :> <<"1">>) @@ ("b" :> <<"2">>)
                             @@ (annotationKeysKey :> <<"[", "a", "b", "]">>)
    /\ svcStore[LB][1].ann = EmptyAnn

\* the spec that a pass starting now would read passes validation
SpecIsValid == loadImpersonationProxyConfiguration(spec).err = ""

\* the step is a sync pass that got as far as doSync
PassStep == last'.op = "Sync"

\* the pass of this step changed neither the proxy task nor any resource
NothingTouched ==
    /\ last'.calls = <<>>
    /\ last'.proc = NoProc
    /\ UNCHANGED <<serverStopCh, errorCh, liveTasks, tlsServingCert, svcStore, secStore,
                   caCount>>

\* C31: the control-plane topology is asked for until the first answer and never
\* again.  Once the flag is cached no step changes it and no pass asks; a pass
\* asks at most once; a failed query leaves the flag unset and ends the pass
\* before it touches the proxy task or any resource; and a pass that finds the
\* flag unset and a valid spec asks (again).
C31_TopologyQueriedUntilKnown ==
    [][/\ hasControlPlaneNodes # "nil" => hasControlPlaneNodes' = hasControlPlaneNodes
       /\ ~PassStep => hasControlPlaneNodes' = hasControlPlaneNodes
       /\ PassStep =>
            /\ last'.cpQueries = IF hasControlPlaneNodes = "nil" /\ SpecIsValid THEN 1 ELSE 0
            /\ last'.err = "topology" =>
                   /\ last'.cpQueries = 1
                   /\ hasControlPlaneNodes' = "nil"
                   /\ NothingTouched
            /\ last'.cpQueries = 1 /\ last'.err # "topology" =>
                   hasControlPlaneNodes' \in {"true", "false"}
            /\ last.op = "Sync" /\ last.err = "topology" /\ SpecIsValid =>
                   last'.cpQueries = 1]_vars

\* a pass that asked nothing because an earlier pass had the answer
C31_Witness ==
    /\ last.op = "Sync"
    /\ last.afterPass
    /\ last.resolved
    /\ last.cpQueries = 0
    /\ hasControlPlaneNodes \in {"true", "false"}

\* a pass that asked again after the pass before it was refused the answer
C31_Retried ==
    /\ last.op = "Sync"
    /\ last.prevErr = "topology"
    /\ last.cpQueries = 1

\* every step of a pass, in source order
AllSteps == <<"loadImpersonationProxyConfiguration">> \o doSyncSteps

StepIndex(step) == CHOOSE i \in 1..Len(AllSteps) : AllSteps[i] = step

\* the step that issues the calls on a resource
StepOf(name) ==
    IF name = LB THEN "toggleLoadBalancer"
    ELSE IF name = CIP THEN "toggleClusterIPService"
    ELSE "reconcileSecrets"

Refused(call) ==
    call.res \in {"AlreadyExists", "Conflict"} \/ (call.verb = "update" /\ call.res = "NotFound")

\* the step whose failure a pass's error reports
FailedStep(err, calls) ==
    IF err \in {"invalid-mode", "invalid-service-type", "invalid-loadBalancerIP",
                "externalEndpoint-not-set", "invalid-externalEndpoint"}
    THEN "loadImpersonationProxyConfiguration"
    ELSE IF err = "topology" THEN "queryControlPlaneNodes"
    ELSE IF err \in {"factory", "crash", "stop"} THEN "toggleImpersonator"
    ELSE IF err = "resolve" THEN "resolveName"
    ELSE IF err \in {"ca-load", "tls-load"} THEN "reconcileSecrets"
    ELSE IF err \in {"signer-not-found", "signer-load"} THEN "updateSigningCert"
    ELSE IF calls # <<>> /\ Refused(calls[Len(calls)]) /\ calls[Len(calls)].res = err
    THEN StepOf(calls[Len(calls)].name)
    ELSE "unknown"

\* the steps of the last pass ran in source order up to the first that failed,
\* and everything the pass did was done by a step that ran, in that order
RanInOrderUntilFailure ==
    /\ last.steps = SubSeq(AllSteps, 1, Len(last.steps))
    /\ Len(last.steps) >= 1
    /\ last.err = "" => last.steps = AllSteps
    /\ last.err # "" => last.steps[Len(last.steps)] = FailedStep(last.err, last.calls)
    /\ \A i \in 1..Len(last.calls) :
           /\ StepOf(last.calls[i].name) \in Range(last.steps)
           /\ \A j \in i..Len(last.calls) :
                  StepIndex(StepOf(last.calls[i].name)) <= StepIndex(StepOf(last.calls[j].name))
           /\ Refused(last.calls[i]) => i = Len(last.calls) /\ last.err = last.calls[i].res
    /\ last.cpQueries > 0 => "queryControlPlaneNodes" \in Range(last.steps)
    /\ last.proc # NoProc => "toggleImpersonator" \in Range(last.steps)
    /\ last.composed # <<>> <=> "composeStatus" \in Range(last.steps)

\* the pass of this step leaves alone what the failed pass right before it
\* had already done
RerunKeepsWhatWasDone ==
    /\ liveTasks' <= 1
    /\ last.proc.launched > 0 => last'.proc.factoryCalls = 0
    /\ \A n \in SvcNames :
           (\E i \in 1..Len(last.calls) : last.calls[i].name = n /\ last.calls[i].res = "ok")
               => svcStore'[n] = svcStore[n]
    /\ (\E i \in 1..Len(last.calls) : last.calls[i] = Call("create", CA, "ok"))
           => secStore'[CA] = secStore[CA]

\* C32: a pass runs its steps in the order validate spec, (topology query,)
\* toggle process, load balancer, cluster-internal service, certificate name,
\* CA and TLS secret, compose status, signing credential; the first step that
\* fails is the last that runs, so every call of the pass comes from a step up
\* to that one; and the pass that runs right after a failed one starts over
\* without launching a second task or changing the services and the CA secret
\* that the failed pass had written.
C32_StepOrderAndAbort ==
    [][PassStep =>
         /\ RanInOrderUntilFailure'
         /\ last.op = "Sync" /\ last.err # "" => RerunKeepsWhatWasDone]_vars

\* a pass that was refused a create, re-run at once: it finds the proxy task
\* that the refused pass left running, launches nothing and is refused again
C32_Witness ==
    /\ last.op = "Sync"
    /\ last.prevErr = "AlreadyExists"
    /\ last.wasRunning
    /\ last.proc = NoProc
    /\ last.err = "AlreadyExists"
    /\ Len(last.steps) > StepIndex("toggleImpersonator")

ValidationErrors ==
    {"invalid-mode", "invalid-service-type", "invalid-loadBalancerIP",
     "externalEndpoint-not-set", "invalid-externalEndpoint"}

\* the service type a spec asks for, LoadBalancer when it names none
AskedServiceType(s) == IF s.svcType = "" THEN "LoadBalancer" ELSE s.svcType

\* the defects that make a spec invalid unless it disables the proxy
FieldDefects(s) ==
    {d \in {"serviceType", "loadBalancerIP", "endpointMissing", "endpointUnparseable"} :
        \/ d = "serviceType" /\ AskedServiceType(s) \notin {"None", "LoadBalancer", "ClusterIP"}
        \/ d = "loadBalancerIP" /\ s.lbIP # "" /\ s.lbIP \notin DOMAIN IPTable
        \/ d = "endpointMissing" /\ AskedServiceType(s) = "None" /\ s.endpoint = <<>>
        \/ d = "endpointUnparseable" /\ s.endpoint # <<>>
                                     /\ ~endpointaddrParse(s.endpoint, "443").ok}

ComparedNames ==
    /\ last.op = "Sync"
    /\ last.tlsCheck \in {"names", "none"}
    /\ secCache[TLS] # <<>>

\* the certificate covers exactly the addresses, in their order, and no DNS
\* name, or exactly the hostname and no address
CoversExactly(cert, desiredIPs, desiredHostname) ==
    \/ /\ Len(desiredIPs) > 0
       /\ Len(cert.ips) = Len(desiredIPs)
       /\ \A i \in 1..Len(desiredIPs) : cert.ips[i] = desiredIPs[i]
       /\ cert.dns = <<>>
    \/ /\ desiredHostname # ""
       /\ cert.dns = <<desiredHostname>>
       /\ cert.ips = <<>>

\* how the certificate's addresses differ from the desired ones
Superset(cert, desiredIPs) ==
    Range(desiredIPs) \subseteq Range(cert.ips) /\ Range(cert.ips) # Range(desiredIPs)

Subset(cert, desiredIPs) ==
    Range(cert.ips) \subseteq Range(desiredIPs) /\ Range(cert.ips) # Range(desiredIPs)

Reordered(cert, desiredIPs) ==
    Range(cert.ips) = Range(desiredIPs) /\ cert.ips # desiredIPs

ExtraDNSName(cert, desiredHostname) ==
    desiredHostname \in Range(cert.dns) /\ Len(cert.dns) > 1

\* C34: a pass keeps the cached certificate for its names exactly when the
\* certificate covers the desired addresses one by one in their order and no DNS
\* name, or the desired hostname alone and no address; a certificate for more
\* addresses, fewer addresses, the same addresses in another order, or a second
\* DNS name is a mismatch, and on a mismatch the pass deletes the TLS secret.
C34_ExactNameMatch ==
    ComparedNames =>
        LET cert == secCache[TLS][1]
            ips == last.nameInfo.selectedIPs
            hostname == last.nameInfo.selectedHostname
        IN  /\ last.tlsCheck = "none" <=> CoversExactly(cert, ips, hostname)
            /\ \/ Superset(cert, ips)
               \/ Subset(cert, ips)
               \/ Reordered(cert, ips)
               \/ ExtraDNSName(cert, hostname)
               => last.tlsCheck = "names"
            /\ last.tlsCheck = "names" => Issued("delete", TLS)
            /\ last.tlsCheck = "none" => ~Issued("delete", TLS) /\ ~Issued("create", TLS)

\* the cached certificate covered the two desired addresses in the other order
\* and was deleted
C34_Witness ==
    /\ ComparedNames
    /\ Len(last.nameInfo.selectedIPs) = 2
    /\ Reordered(secCache[TLS][1], last.nameInfo.selectedIPs)
    /\ secCache[TLS][1].dns = <<>>
    /\ Succeeded("delete", TLS)

\* the last pass called ensureImpersonatorIsStopped on a task it held
CalledStop == last.op = "Sync" /\ last.proc.stopChCloses > 0

\* the last pass stopped a task that had returned on its own before the pass
StoppedAfterExit ==
    /\ CalledStop
    /\ ~last.should.impersonator
    /\ last.errorChWas \in {"nilErr", "err"}

\* C35: every call of ensureImpersonatorIsStopped returns, given that the start
\* function returns once its stop channel is closed: its receive finds the
\* result of a task that had returned before, or the closed channel on the
\* crash path, or the result that the stopped task sends.  Only a pass that
\* stops a running task waits for the task; no other pass does.
C35_StopTerminates ==
    /\ errorCh = "empty" <=> liveTasks = 1
    /\ liveTasks \in {0, 1}
    /\ last.op = "Sync" =>
           /\ last.proc.fault = ""
           /\ last.err # "blocked"
           /\ CalledStop => serverStopCh = "nil" /\ errorCh = "nil" /\ liveTasks = 0
           /\ StoppedAfterExit => last.proc.exits = 0 /\ last.proc.sends = 0
           /\ last.crashed /\ last.should.impersonator =>
                  CalledStop /\ last.proc.exits = 0 /\ last.proc.errorChCloses = 1
           /\ last.proc.exits > 0 =>
                  /\ last.proc.exits = 1
                  /\ CalledStop
                  /\ ~last.should.impersonator
                  /\ last.errorChWas = "empty"

\* a pass stopped a task that had returned on its own and left its result in
\* the channel
C35_Witness ==
    /\ StoppedAfterExit
    /\ last.afterExit
    /\ last.proc.fault = ""
    /\ serverStopCh = "nil"

\* C36: a pass that finds an invalid spec issues no create, update or delete,
\* does not ask for the control-plane topology, neither starts nor stops the
\* proxy task and leaves the serving certificate as loaded; it publishes one
\* error status carrying the validation error and clears the signing
\* certificate.
C36_InvalidSpecChangesOnlyStatus ==
    [][PassStep /\ ~SpecIsValid =>
         /\ last'.err \in ValidationErrors
         /\ NothingTouched
         /\ last'.cpQueries = 0
         /\ UNCHANGED <<hasControlPlaneNodes, svcDirty, secDirty>>
         /\ last'.published = 1
         /\ status' = <<Strategy("Error", "ErrorDuringSetup", last'.err, <<>>)>>
         /\ signingCert' = "unset"]_vars

\* a pass found the spec invalid while the proxy ran with its certificate and
\* the signing certificate loaded
C36_Witness ==
    /\ last.op = "Sync"
    /\ last.err \in ValidationErrors
    /\ last.wasRunning
    /\ last.certWasLoaded
    /\ last.signerWasSet
    /\ serverStopCh = "open"
    /\ tlsServingCert # <<>>
    /\ signingCert = "unset"

\* C37: a call of ensureImpersonatorIsStopped on a held task ends with both
\* handles nil, whether the error it read is nil or not; an error it read ends
\* the pass at that step and is published; and the pass right after finds no
\* task, stops nothing and goes on to the steps that follow.
C37_StopEndsStopped ==
    last.op = "Sync" =>
        /\ CalledStop => Stopped /\ liveTasks = 0 /\ last.wasRunning
        /\ last.wasRunning /\ last.resolved /\ ~last.should.impersonator => CalledStop
        /\ last.err = "stop" =>
               /\ CalledStop
               /\ ~last.should.impersonator
               /\ last.steps[Len(last.steps)] = "toggleImpersonator"
               /\ last.calls = <<>>
               /\ Published("Error", "ErrorDuringSetup")
        /\ last.prevErr = "stop" =>
               /\ ~last.wasRunning
               /\ last.proc = NoProc
               /\ Stopped
               /\ last.err # "stop"
               /\ Len(last.steps) > StepIndex("toggleImpersonator")

\* the pass after a stop that returned the task's error: nothing to stop, and
\* the teardown goes on
C37_Witness ==
    /\ last.op = "Sync"
    /\ last.prevErr = "stop"
    /\ Stopped
    /\ last.err = ""
    /\ Published("Error", "Disabled")

\* a stop that read no error
C37_StoppedCleanly ==
    /\ CalledStop
    /\ last.err = ""
    /\ Stopped

\* the last pass published a success status
PublishedSuccess ==
    /\ last.op = "Sync"
    /\ status # <<>>
    /\ status[1].status = "Success"

\* C38: when a pass publishes a success status, the controller holds the proxy
\* task as running, and the serving certificate it has loaded has a matching
\* key, is signed by the authority whose bundle the status carries, and covers
\* exactly the name the pass resolved, whose endpoint the status carries.
C38_SuccessMeansConsistentCertificate ==
    PublishedSuccess =>
        /\ last.err = ""
        /\ last.should.impersonator
        /\ serverStopCh = "open"
        /\ errorCh = "empty"
        /\ last.nameInfo.ready
        /\ last.ca # <<>>
        /\ status[1].frontend =
               <<[endpoint |-> <<"https://">> \o last.nameInfo.clientEndpoint,
                  caData |-> base64Encode(last.ca[1])]>>
        /\ tlsServingCert # <<>>
        /\ X509KeyPair(tlsServingCert[1])
        /\ tlsServingCert[1].issuer = last.ca[1]
        /\ CoversExactly(tlsServingCert[1], last.nameInfo.selectedIPs,
                         last.nameInfo.selectedHostname)

\* a pass replaced a TLS secret that somebody had overwritten and published
\* success with the new certificate loaded
C38_Witness ==
    /\ PublishedSuccess
    /\ Succeeded("delete", TLS)
    /\ Succeeded("create", TLS)
    /\ tlsServingCert = secStore[TLS]
    /\ last.certWasLoaded

\* the pass of this step was refused the create of a secret that another
\* replica had stored since this replica's informer last listed it
LostCreateRace(name) ==
    /\ PassStep
    /\ \E i \in 1..Len(last'.calls) : last'.calls[i] = Call("create", name, "AlreadyExists")

\* the stored TLS secret holds a certificate of the stored authority
TLSChainsToStoredCA ==
    secStore[TLS] # <<>> =>
        /\ secStore[CA] # <<>>
        /\ secStore[CA][1].valid
        /\ secStore[TLS][1].issuer = secStore[CA][1].id
        /\ X509KeyPair(secStore[TLS][1])

\* C39: with two replicas taking turns, each on its own possibly stale caches,
\* and nobody else writing secrets: there is never more than the one CA secret
\* and the one TLS secret, and a stored CA secret is never replaced; a replica
\* that is refused a create because the other one got there first leaves the
\* stored secret as it is, ends its pass there and publishes reason Pending;
\* and the stored TLS secret always holds a certificate of the stored authority.
C39_RacingReplicasKeepSecretsConsistent ==
    [][/\ \A name \in {CA, TLS} : Len(secStore'[name]) <= 1
       /\ secStore[CA] # <<>> => secStore'[CA] = secStore[CA]
       /\ caCount' <= 1
       /\ \A name \in {CA, TLS} :
              LostCreateRace(name) =>
                  /\ secStore'[name] = secStore[name]
                  /\ secStore[name] # <<>>
                  /\ secCache[name] = <<>>
                  /\ last'.err = "AlreadyExists"
                  /\ last'.calls[Len(last'.calls)] = Call("create", name, "AlreadyExists")
                  /\ status' = <<Strategy("Error", "Pending", "AlreadyExists", <<>>)>>
       /\ TLSChainsToStoredCA']_vars

\* a replica was refused the create of the CA secret that the other replica
\* had stored, while a TLS secret of that authority was stored as well
C39_Witness ==
    /\ last.op = "Sync"
    /\ last.calls # <<>>
    /\ last.calls[Len(last.calls)] = Call("create", CA, "AlreadyExists")
    /\ Published("Error", "Pending")
    /\ standby # <<>>
    /\ standby[1].secCache[CA] # <<>> \/ standby[1].secDirty # {}
    /\ secStore[CA] # <<>>
    /\ secStore[TLS] # <<>>

\* a replica was refused the create of the TLS secret
C39_LostTLSRace ==
    /\ last.op = "Sync"
    /\ last.calls # <<>>
    /\ last.calls[Len(last.calls)] = Call("create", TLS, "AlreadyExists")
    /\ standby # <<>>

\* a replica with a stale cache deleted the TLS secret that the other replica
\* had just stored, and stored its own
C39_ReplacedPeersSecret ==
    /\ last.op = "Sync"
    /\ standby # <<>>
    /\ Succeeded("delete", TLS)
    /\ Succeeded("create", TLS)
    /\ secCache[TLS] # <<>>
    /\ standby[1].tlsServingCert # <<>>
    /\ standby[1].tlsServingCert # secCache[TLS]

\* the exposure the spec asks for has an address a certificate can be issued
\* for: an external endpoint, a load balancer ingress with a hostname or a
\* parseable IP, or a cluster IP
AddressUsable ==
    \/ spec.endpoint # <<>>
    \/ /\ spec.svcType = "LoadBalancer"
       /\ svcStore[LB] # <<>>
       /\ \E i \in DOMAIN svcStore[LB][1].ingress :
              \/ svcStore[LB][1].ingress[i].hostname # ""
              \/ ParseIP(svcStore[LB][1].ingress[i].ip) # <<>>
    \/ /\ spec.svcType = "ClusterIP"
       /\ svcStore[CIP] # <<>>
       /\ svcStore[CIP][1].clusterIP # ""

\* a pass that published success and issued no mutating call
QuietSuccess == PublishedSuccess /\ last.calls = <<>>

\* what the claim assumes of the environment: the proxy stops crashing and the
\* exposure has a usable address (the spec is fixed and valid, the signing
\* secret exists, the caches catch up and passes are re-run in every behaviour
\* of the specification)
ProxyStopsCrashing == <>[](last.op # "TaskExit")

AddressStaysUsable == <>[]AddressUsable

\* what it does not mention: the topology query answers at some time, and from
\* some time on the proxy server can be constructed
TopologyAnswered == <>(hasControlPlaneNodes # "nil")

ProxyCanBeStarted == <>[](last.op = "Sync" => last.err # "factory")

C40_SuccessKeptFromFirst ==
    (ProxyStopsCrashing /\ AddressStaysUsable /\ TopologyAnswered /\ ProxyCanBeStarted)
        => [](PublishedSuccess => [](last.op = "Sync" => QuietSuccess))

====
